---- MODULE Spec2Model ----
(***************************************************************************)
(* UI-state synchronisation engine of gist-settings-sync.                  *)
(*                                                                         *)
(* Two store adapters are modelled behind one variable, backend:           *)
(*   "host"    - src/uiStateSync/types.ts (second module of the file, the  *)
(*               SQLite adapter of plain VS Code)                          *)
(*   "sandbox" - web/webview.ts (src/unnamed/part_013, the IndexedDB       *)
(*               adapter running in the hidden webview) driven by          *)
(*               src/uiStateSync/codeServer.ts                             *)
(*                                                                         *)
(* Strings are sequences of symbols.  A symbol is ".", "*", "/" or a word  *)
(* standing for a run of characters holding none of these three.           *)
(***************************************************************************)
EXTENDS Integers, Sequences, FiniteSets, TLC

VARIABLES
    backend,      \* which adapter this instance runs
    storage,      \* [store -> [key -> value]], the local databases
    config,       \* vscode.workspace.getConfiguration('gistSettingsSync')
    cycles,       \* the executions of syncUIState, by slot
    uiStateFile,  \* userDataDir/uiState.json, the persisted fallback
    apply,        \* the execution of setUIState
    passes,       \* host: concurrent executions of setUIState, statement by statement
    writes,       \* the writes of uiState.json that were started and have not settled
    latest,       \* history: the snapshot of the last extraction that ended with one
    call,         \* one call of a pure function: its arguments and what it returned
    manager,      \* the ConfigurationManager: current, listeners, and the calls it made
    sync,         \* one execution of syncUp or syncDown of syncManager.ts
    down,         \* sync.ts syncDown from manager.store(files) on, and the writes it started
    timers,       \* the interval timers ever created, by id
    nextTimer,    \* the id the next setInterval returns
    syncTimer,    \* syncTimer (host) / syncTimerId (sandbox); 0 is null
    chan,         \* messages posted to the webview and not yet received
    panel,        \* _frontendPanel is defined
    activated,    \* initUiSync has run
    restarts,     \* executions of restartUiSync suspended in "await stopUiSync()"
    lastCmd,      \* history: the last scheduler command the adapter processed
    startsInARow  \* history: starts processed since the last stop, up to 2

sched == <<timers, nextTimer, syncTimer, chan, panel, activated, restarts,
           lastCmd, startsInARow>>

vars == <<backend, storage, config, cycles, uiStateFile, apply, passes, writes, latest, call,
          manager, sync, down, sched>>

(***************************************************************************)
(* Bounds                                                                  *)
(***************************************************************************)
MaxCycles == 2
MaxTimers == 3
MaxRestarts == 2
MaxChan == 4
MaxPasses == 2
MaxWrites == 2
MaxPathLen == 4
MaxKeyLen == 3
MaxListeners == 2

(***************************************************************************)
(* Keys, patterns and values                                               *)
(***************************************************************************)
SelectedRoot == <<"debug", ".", "selectedroot">>
EmptyKey == <<>>
KHidden == <<"workbench", ".", "sideBar", ".", "hidden">>
KGit == <<"workbench", ".", "view", ".", "extension", ".", "git", ".", "state">>
KGitSub == <<"workbench", ".", "view", ".", "extension", ".", "git", ".", "sub", ".", "state">>
KSecret == <<"secret", ".", "token">>
PExt == <<"workbench", ".", "view", ".", "extension", ".", "*", ".", "state">>
PStar == <<"*", ".", "token">>

Str(text) == [type |-> "string", text |-> text]
Num(text) == [type |-> "number", text |-> text]

UrlA == Str(<<"file://", "/", "ws", "/", "projA", "/", ".vscode", "/", "x">>)
UrlB == Str(<<"file://", "/", "ws", "/", "projB", "/", ".vscode", "/", "x">>)
UrlRoot == Str(<<"file://", "/", ".vscode", "/", "launch.json">>)
UrlNoCtl == Str(<<"file://", "/", "launch.json">>)
NotUrl == Str(<<"not a url">>)
VTrue == Str(<<"true">>)
VFalse == Str(<<"false">>)
VAbc == Str(<<"abc">>)
VNum == Num(<<"42">>)

EmptyMap == [x \in {} |-> {}]

\* no function is being called
NoCall == [fn |-> "none"]

(***************************************************************************)
(* syncManager.ts: syncUp and syncDown on one gist                         *)
(***************************************************************************)
\* the parts of SyncData, in the order syncUp reads and syncDown writes them
PartOrder == <<"settings", "keybindings", "snippets", "tasks", "uiState", "profiles",
               "extensions">>

Parts == {PartOrder[i] : i \in 1..Len(PartOrder)}

\* the values of settingsSync.gistId: the default '' and the id of a gist
GistIds == {"", "g1"}

\* no execution yet. configured is config.gistId, gistId the local variable
\* of syncUp, include the parts whose include flag is set, token whether
\* getGitHubToken found or was given a token, present the parts the
\* downloaded data defines, next the place in PartOrder syncDown is at;
\* created, saved, uploaded, downloads and written record the effects
IdleSync ==
    [fn |-> "none", pc |-> "idle", configured |-> "", gistId |-> "", include |-> {},
     token |-> FALSE, created |-> FALSE, saved |-> "", uploaded |-> FALSE,
     downloads |-> 0, present |-> {}, next |-> 1, written |-> <<>>, error |-> ""]

SyncSettled == sync.pc \in {"idle", "done", "failed"}

SyncThrows(sy, message) == [sy EXCEPT !.pc = "failed", !.error = message]

\* syncUp up to createGist or uploadGist: the configuration, the token, and
\* the reads, none of which throws (readJSONFile and readSnippets catch)
CallSyncUp(gistId, include, token) ==
    /\ sync.pc = "idle"
    /\ LET sy == [IdleSync EXCEPT !.fn = "syncUp", !.configured = gistId,
                                  !.gistId = gistId, !.include = include,
                                  !.token = token]
       IN  sync' = IF ~token THEN SyncThrows(sy, "GitHub token is required.")
                   ELSE [sy EXCEPT !.pc = IF gistId = "" THEN "createGist"
                                          ELSE "uploadGist"]
    /\ UNCHANGED <<backend, down, call, manager, writes, latest, storage, config, cycles,
                   uiStateFile, apply, passes, sched>>

CreateOutcomes == {"ok", "apiError", "noId"}

\* gistId = await createGist(token); saveGistId(gistId)
CreateGist(outcome) ==
    /\ sync.pc = "createGist"
    /\ sync' = CASE outcome = "ok" ->
                      [sync EXCEPT !.created = TRUE, !.gistId = "new", !.saved = "new",
                                   !.pc = "uploadGist"]
                  [] outcome = "apiError" -> SyncThrows(sync, "GitHub API error")
                  [] OTHER ->
                      SyncThrows([sync EXCEPT !.created = TRUE],
                                 "Failed to retrieve new Gist ID from response.")
    /\ UNCHANGED <<backend, down, call, manager, writes, latest, storage, config, cycles,
                   uiStateFile, apply, passes, sched>>

\* await uploadGist(gistId, token, content)
UploadGist(ok) ==
    /\ sync.pc = "uploadGist"
    /\ sync' = IF ok THEN [sync EXCEPT !.uploaded = TRUE, !.pc = "done"]
                ELSE SyncThrows(sync, "GitHub API error")
    /\ UNCHANGED <<backend, down, call, manager, writes, latest, storage, config, cycles,
                   uiStateFile, apply, passes, sched>>

\* syncDown up to downloadGist: the configuration, the token, the test of
\* config.gistId
CallSyncDown(gistId, include, token) ==
    /\ sync.pc = "idle"
    /\ LET sy == [IdleSync EXCEPT !.fn = "syncDown", !.configured = gistId,
                                  !.gistId = gistId, !.include = include,
                                  !.token = token]
       IN  sync' = IF ~token THEN SyncThrows(sy, "GitHub token is required.")
                   ELSE IF gistId = ""
                   THEN SyncThrows(sy, "Gist ID is not configured. syncUp first.")
                   ELSE [sy EXCEPT !.pc = "downloadGist"]
    /\ UNCHANGED <<backend, down, call, manager, writes, latest, storage, config, cycles,
                   uiStateFile, apply, passes, sched>>

\* the first place from i on of a part that is included and that the data
\* defines, Len(PartOrder) + 1 if there is none
RECURSIVE NextPart(_, _, _)
NextPart(i, include, present) ==
    IF i > Len(PartOrder) THEN i
    ELSE IF PartOrder[i] \in include /\ PartOrder[i] \in present THEN i
    ELSE NextPart(i + 1, include, present)

\* syncDown from a place in PartOrder on: at a part to write, or done
SyncDownAt(sy, i) ==
    LET n == NextPart(i, sy.include, sy.present)
    IN  IF n > Len(PartOrder) THEN [sy EXCEPT !.next = n, !.pc = "done"]
        ELSE [sy EXCEPT !.next = n, !.pc = "write"]

DownloadOutcomes == {"ok", "apiError", "noFile", "badJson"}

\* content = await downloadGist(config.gistId, token); JSON.parse(content)
DownloadGist(outcome, present) ==
    /\ sync.pc = "downloadGist"
    /\ LET sy == [sync EXCEPT !.downloads = @ + 1]
       IN  sync' = CASE outcome = "ok" -> SyncDownAt([sy EXCEPT !.present = present], 1)
                     [] outcome = "apiError" -> SyncThrows(sy, "GitHub API error")
                     [] outcome = "noFile" ->
                         SyncThrows(sy, "Gist does not contain the expected settings file.")
                     [] OTHER -> SyncThrows(sy, "SyntaxError")
    /\ UNCHANGED <<backend, down, call, manager, writes, latest, storage, config, cycles,
                   uiStateFile, apply, passes, sched>>

\* one of the awaited writes of syncDown; installMissingExtensions catches
\* what its installs throw
WritePart(ok) ==
    /\ sync.pc = "write"
    /\ LET part == PartOrder[sync.next]
       IN  sync' = IF ok \/ part = "extensions"
                   THEN SyncDownAt([sync EXCEPT !.written = Append(@, part)],
                                   sync.next + 1)
                   ELSE SyncThrows(sync, "write failed")
    /\ UNCHANGED <<backend, down, call, manager, writes, latest, storage, config, cycles,
                   uiStateFile, apply, passes, sched>>

(***************************************************************************)
(* The settings managers: the file names they extract and accept.  A file  *)
(* name is the sequence of the pieces it is put together from              *)
(***************************************************************************)
ManagerNames ==
    {"settings", "keybindings", "snippets", "tasks", "profiles", "extensions", "uiState"}

\* names of workspace folders
FolderNames == {"a", "b"}

\* files a snippets directory or a .vscode directory may hold
DirFileChoices == {<<"x", ".code-snippets">>, <<"notes", ".json">>}

\* what fileNames() meets: the workspace folders, for each what fs.access
\* answers for the path the manager looks at in it, whether the user
\* snippets directory can be read, and the files the directories hold
EnvChoices ==
    [folders : SUBSET FolderNames,
     access : [FolderNames -> {"ok", "enoent", "error"}],
     userDir : BOOLEAN,
     dirFiles : SUBSET DirFileChoices]

\* fileName.endsWith(suffix)
EndsWith(name, suffix) ==
    /\ Len(name) >= Len(suffix)
    /\ SubSeq(name, Len(name) - Len(suffix) + 1, Len(name)) = suffix

\* fileNames() of each manager
fileNames(m, env) ==
    CASE m = "settings" ->
            {<<"settings.json">>}
            \cup {<<"workspace-", f, "-", "settings.json">> :
                     f \in {g \in env.folders : env.access[g] = "ok"}}
      [] m = "keybindings" -> {<<"keybindings.json">>}
      [] m = "snippets" ->
            LET snippets == {file \in env.dirFiles : EndsWith(file, <<".code-snippets">>)}
            IN  (IF env.userDir THEN snippets ELSE {})
                \cup {<<"workspace-", f, "-">> \o file :
                         f \in {g \in env.folders : env.access[g] = "ok"},
                         file \in snippets}
      [] m = "tasks" ->
            {<<"workspace-", f, "-", "tasks.json">> :
                f \in {g \in env.folders : env.access[g] = "enoent"}}
      [] m = "profiles" -> {<<"profiles.json">>}
      [] m = "extensions" -> {<<"extensions.json">>}
      [] OTHER -> {<<"uiState.json">>}

\* canHandle(file) of each manager
canHandle(m, fileName) ==
    CASE m = "settings" -> EndsWith(fileName, <<"settings.json">>)
      [] m = "keybindings" -> fileName = <<"keybindings.json">>
      [] m = "snippets" -> EndsWith(fileName, <<".code-snippets">>)
      [] m = "tasks" -> EndsWith(fileName, <<"-", "tasks.json">>)
      [] m = "profiles" -> fileName = <<"profile.json">>
      [] m = "extensions" -> fileName = <<"extensions.json">>
      [] OTHER -> fileName = <<"uiState.json">>

\* the files readFileIfExists may find content for, among those named
ContentChoices(m, names) == IF m = "extensions" THEN {{}} ELSE SUBSET names

\* SettingsManagerBase.extract: the files named by fileNames() for which
\* dataForFile returns content; the extensions manager computes its content,
\* the others read a file that may be missing or empty
extract(m, env, withContent) ==
    {n \in fileNames(m, env) : m = "extensions" \/ n \in withContent}

\* extract() of a manager, and canHandle() of the same manager on each file
\* it returned
CallExtract ==
    /\ call.fn = "extract" /\ ~call.returned
    /\ LET produced == extract(call.manager, call.env, call.withContent)
       IN  call' = [call EXCEPT
                       !.returned = TRUE,
                       !.produced = produced,
                       !.accepted = {n \in produced : canHandle(call.manager, n)}]
    /\ UNCHANGED <<backend, down, sync, manager, writes, latest, storage, config, cycles,
                   uiStateFile, apply, passes, sched>>

(***************************************************************************)
(* SettingsManagerBase.store under syncDown of sync.ts                     *)
(***************************************************************************)
\* names of downloaded files: two user files and one workspace file
StoreFileNames == {"settings.json", "keybindings.json", "workspace-proj-tasks.json"}

\* the arrays of SettingsFile handed to store: for each file name whether it
\* is absent, has null content or has content
StoreDataChoices == [StoreFileNames -> {"absent", "null", "content"}]

\* nothing was stored yet.  stage is, for each file, where the execution of
\* storeDataForFile is: "none" (not started), "path" (awaiting
\* getPathFromFileName), "mkdir" and "writeFile" (inside writeFileEnsureDir,
\* awaiting fs), "written" or "failed"
IdleDown ==
    [pc |-> "idle", data |-> [f \in StoreFileNames |-> "absent"],
     stage |-> [f \in StoreFileNames |-> "none"],
     resolved |-> FALSE, rejected |-> FALSE, shown |-> "none"]

\* syncDown calls manager.store(files): the filter, then the map whose
\* callback calls storeDataForFile without returning or awaiting its
\* promise; each storeDataForFile runs up to its first await
CallStore(data) ==
    /\ down.pc = "idle"
    /\ down' = [IdleDown EXCEPT
                   !.pc = "storing",
                   !.data = data,
                   !.stage = [f \in StoreFileNames |->
                                 IF data[f] = "content" THEN "path" ELSE "none"]]
    /\ UNCHANGED <<backend, sync, call, manager, writes, latest, storage, config, cycles,
                   uiStateFile, apply, passes, sched>>

\* storeDataForFile resumes with the path and calls writeFileEnsureDir
\* without awaiting it; writeFileEnsureDir runs up to "await fs.mkdir"
PathResolves(f) ==
    /\ down.stage[f] = "path"
    /\ down' = [down EXCEPT !.stage[f] = "mkdir"]
    /\ UNCHANGED <<backend, sync, call, manager, writes, latest, storage, config, cycles,
                   uiStateFile, apply, passes, sched>>

\* the Promise.all of store resolves, the callbacks of its map having
\* resolved at once; then that of syncDown, which shows the message.  None of
\* the promises awaited can reject
StoreResolves ==
    /\ down.pc = "storing"
    /\ down' = [down EXCEPT !.pc = "done", !.resolved = TRUE, !.shown = "success"]
    /\ UNCHANGED <<backend, sync, call, manager, writes, latest, storage, config, cycles,
                   uiStateFile, apply, passes, sched>>

\* fs.mkdir settles.  The file system answers in a later turn of the event
\* loop than the one in which syncDown ran through its resolved promises
MkdirSettles(f, ok) ==
    /\ down.stage[f] = "mkdir"
    /\ down.pc = "done"
    /\ down' = [down EXCEPT !.stage[f] = IF ok THEN "writeFile" ELSE "failed"]
    /\ UNCHANGED <<backend, sync, call, manager, writes, latest, storage, config, cycles,
                   uiStateFile, apply, passes, sched>>

\* fs.writeFile settles; a rejection is handled by nobody
WriteFileSettles(f, ok) ==
    /\ down.stage[f] = "writeFile"
    /\ down' = [down EXCEPT !.stage[f] = IF ok THEN "written" ELSE "failed"]
    /\ UNCHANGED <<backend, sync, call, manager, writes, latest, storage, config, cycles,
                   uiStateFile, apply, passes, sched>>

(***************************************************************************)
(* ConfigurationManager                                                    *)
(***************************************************************************)
\* two of the keys of configurationProperties, in the order of the for...in
\* loops, their default values and the values the settings may give them
ConfigKeyOrder == <<"includeUIState", "uiStateSyncInterval">>

ConfigKeys == {ConfigKeyOrder[i] : i \in 1..Len(ConfigKeyOrder)}

DefaultValue == [k \in ConfigKeys |-> IF k = "includeUIState" THEN "true" ELSE "10"]

SettingsChoices ==
    {[k \in ConfigKeys |-> IF k = "includeUIState" THEN a ELSE b] :
        a \in {"true", "false"}, b \in {"10", "20"}}

\* the functions that are registered as listeners
ListenerIds == {"l1", "l2"}

\* the manager after its constructor ran with the default settings; calls
\* and affected are the history of the last change event, removed the
\* <<key, listener>> pairs that removeListener was called with and
\* addListener was not called with since
NewManager ==
    [current |-> DefaultValue,
     listeners |-> [k \in ConfigKeys |-> <<>>],
     affected |-> {},
     calls |-> <<>>,
     removed |-> {}]

\* this.listeners[key].push(listener)
addListener(key, listener) ==
    /\ Len(manager.listeners[key]) < MaxListeners
    /\ manager' = [manager EXCEPT !.listeners[key] = Append(@, listener),
                                  !.affected = {}, !.calls = <<>>,
                                  !.removed = @ \ {<<key, listener>>}]
    /\ UNCHANGED <<backend, down, sync, call, writes, latest, storage, config, cycles, uiStateFile, apply,
                   passes, sched>>

\* a removal that takes out the first registration of the listener only
removeListenerFirstOnly(key, listener) ==
    /\ manager' = [manager EXCEPT
                      !.listeners[key] =
                          IF \E i \in 1..Len(@) : @[i] = listener
                          THEN LET first == CHOOSE i \in 1..Len(@) :
                                               /\ @[i] = listener
                                               /\ \A j \in 1..(i - 1) : @[j] # listener
                               IN  SubSeq(@, 1, first - 1) \o SubSeq(@, first + 1, Len(@))
                          ELSE @,
                      !.affected = {}, !.calls = <<>>,
                      !.removed = @ \cup {<<key, listener>>}]
    /\ UNCHANGED <<backend, down, sync, call, writes, latest, storage, config, cycles, uiStateFile, apply,
                   passes, sched>>

\* this.listeners[key] = this.listeners[key].filter((l) => l !== listener)
removeListener(key, listener) ==
    /\ manager' = [manager EXCEPT !.listeners[key] = SelectSeq(@, LAMBDA l : l # listener),
                                  !.affected = {}, !.calls = <<>>,
                                  !.removed = @ \cup {<<key, listener>>}]
    /\ UNCHANGED <<backend, down, sync, call, writes, latest, storage, config, cycles, uiStateFile, apply,
                   passes, sched>>

\* this.listeners[key].forEach((listener) => listener(key, newValue)); got is
\* what get(key) returns inside the listener
notifyListeners(m, key, newValue) ==
    [m EXCEPT !.calls = @ \o [i \in 1..Len(m.listeners[key]) |->
                                 [listener |-> m.listeners[key][i], key |-> key,
                                  newValue |-> newValue, got |-> m.current[key]]]]

\* a body of the loop that notifies before it stores the new value
UpdateKeyNotifyFirst(m, key, settings) ==
    [notifyListeners(m, key, settings[key]) EXCEPT !.current[key] = settings[key]]

\* the body of the loop of updateConfiguration for an affected key
UpdateKey(m, key, settings) ==
    notifyListeners([m EXCEPT !.current[key] = settings[key]], key, settings[key])

\* the loop of updateConfiguration over the keys, from key i on
RECURSIVE UpdateKeys(_, _, _, _)
UpdateKeys(m, i, affected, settings) ==
    IF i > Len(ConfigKeyOrder) THEN m
    ELSE UpdateKeys(IF ConfigKeyOrder[i] \in affected
                    THEN UpdateKey(m, ConfigKeyOrder[i], settings) ELSE m,
                    i + 1, affected, settings)

\* the onDidChangeConfiguration callback: an event affecting some keys, with
\* the settings as getConfiguration returns them
updateConfiguration(affected, settings) ==
    /\ manager' = UpdateKeys([manager EXCEPT !.affected = affected, !.calls = <<>>],
                             1, affected, settings)
    /\ UNCHANGED <<backend, down, sync, call, writes, latest, storage, config, cycles, uiStateFile, apply,
                   passes, sched>>

\* the strings up to a length over an alphabet
SeqsUpTo(S, n) == UNION {[1..k -> S] : k \in 0..n}

Put(f, k, v) == [x \in DOMAIN f \cup {k} |-> IF x = k THEN v ELSE f[x]]

(***************************************************************************)
(* Key Filter: isSafeKey                                                   *)
(***************************************************************************)
\* safe.replace(/[-/\\^$+?.()|[\]{}]/g, '\\$&').replace(/\*/g, '[^.]*'):
\* every symbol but "*" becomes a literal atom, "*" becomes the class [^.]*
RegexOf(safe) ==
    [i \in 1..Len(safe) |->
        IF safe[i] = "*" THEN [kind |-> "notDotStar", sym |-> "*"]
                         ELSE [kind |-> "literal", sym |-> safe[i]]]

\* a match in which "*" stands for any run of characters
RECURSIVE RegexMatchAnyRun(_, _, _, _)
RegexMatchAnyRun(re, i, key, j) ==
    IF i > Len(re) THEN j > Len(key)
    ELSE IF re[i].kind = "literal"
         THEN j <= Len(key) /\ key[j] = re[i].sym /\ RegexMatchAnyRun(re, i + 1, key, j + 1)
         ELSE \/ RegexMatchAnyRun(re, i + 1, key, j)
              \/ j <= Len(key) /\ RegexMatchAnyRun(re, i, key, j + 1)

\* new RegExp('^' + escaped + '$').test(key), from atom i and position j
RECURSIVE RegexMatch(_, _, _, _)
RegexMatch(re, i, key, j) ==
    IF i > Len(re) THEN j > Len(key)
    ELSE IF re[i].kind = "literal"
         THEN j <= Len(key) /\ key[j] = re[i].sym /\ RegexMatch(re, i + 1, key, j + 1)
         ELSE \/ RegexMatch(re, i + 1, key, j)
              \/ j <= Len(key) /\ key[j] # "." /\ RegexMatch(re, i, key, j + 1)

Includes(seq, x) == \E i \in 1..Len(seq) : seq[i] = x

\* a filter whose exact comparison ignores the case of the letters
LowerCase(str) == [i \in 1..Len(str) |-> IF str[i] = "A" THEN "a" ELSE str[i]]

isSafeKeyIgnoreCase(key, safeKeysToSync) ==
    \/ \E i \in 1..Len(safeKeysToSync) : LowerCase(safeKeysToSync[i]) = LowerCase(key)
    \/ \E i \in 1..Len(safeKeysToSync) :
          /\ Includes(safeKeysToSync[i], "*")
          /\ RegexMatch(RegexOf(safeKeysToSync[i]), 1, key, 1)

isSafeKey(key, safeKeysToSync) ==
    \/ Includes(safeKeysToSync, key)
    \/ \E i \in 1..Len(safeKeysToSync) :
          /\ Includes(safeKeysToSync[i], "*")
          /\ RegexMatch(RegexOf(safeKeysToSync[i]), 1, key, 1)

\* the characters of the keys and patterns tried, one symbol a character:
\* the separator, the wildcard, a letter and the same letter in upper case
KeySymbols == {".", "*", "a", "A"}

KeyChoices == SeqsUpTo(KeySymbols, MaxKeyLen) \cup {KGit, KGitSub}

\* the values of safeKeysToSync tried: no pattern, one pattern, two patterns
SafeSetChoices ==
    {<<>>}
    \cup {<<p>> : p \in SeqsUpTo(KeySymbols, MaxKeyLen) \cup {PExt, KGit}}
    \cup {<<p, q>> : p \in SeqsUpTo(KeySymbols, MaxKeyLen), q \in SeqsUpTo(KeySymbols, 1)}

\* isSafeKey is called with a key and the patterns
CallIsSafeKey ==
    /\ call.fn = "isSafeKey" /\ ~call.returned
    /\ call' = [call EXCEPT !.returned = TRUE,
                            !.result = isSafeKey(call.key, call.safeKeysToSync)]
    /\ UNCHANGED <<backend, down, sync, manager, writes, latest, storage, config, cycles, uiStateFile, apply, passes,
                   sched>>

(***************************************************************************)
(* Workspace Resolver: getWorkspaceName                                    *)
(***************************************************************************)
Null == [isNull |-> TRUE, name |-> <<>>]
Name(n) == [isNull |-> FALSE, name |-> n]

\* a check that skips null only
FalsyNullOnly(w) == w.isNull

\* !workspaceName: null and the empty string are falsy
Falsy(w) == w.isNull \/ w.name = <<>>

\* new URL(s): only a string with a scheme parses; "file://" is the scheme with
\* an empty host, what follows is the pathname ("/" when nothing follows)
UrlParses(s) == Len(s) >= 1 /\ s[1] = "file://"

Pathname(s) == IF Len(s) = 1 THEN <<"/">> ELSE Tail(s)

\* pathname.split('/')
RECURSIVE SplitSlash(_, _, _)
SplitSlash(s, i, cur) ==
    IF i > Len(s) THEN <<cur>>
    ELSE IF s[i] = "/" THEN <<cur>> \o SplitSlash(s, i + 1, <<>>)
         ELSE SplitSlash(s, i + 1, Append(cur, s[i]))

\* parts.indexOf('.vscode'), 0-based, -1 when absent
IndexOfVscode(parts) ==
    IF \E i \in 1..Len(parts) : parts[i] = <<".vscode">>
    THEN (CHOOSE i \in 1..Len(parts) :
             /\ parts[i] = <<".vscode">>
             /\ \A j \in 1..(i - 1) : parts[j] # <<".vscode">>) - 1
    ELSE -1

\* a resolver that returns the segment at vscodeIndex + 1 of parts
getWorkspaceNameOffByOne(selectedRoot) ==
    IF ~UrlParses(selectedRoot) THEN Null
    ELSE LET parts == SplitSlash(Pathname(selectedRoot), 1, <<>>)
             vscodeIndex == IndexOfVscode(parts)
         IN  IF vscodeIndex > 0 THEN Name(parts[vscodeIndex + 1]) ELSE Null

getWorkspaceName(selectedRoot) ==
    IF ~UrlParses(selectedRoot) THEN Null
    ELSE LET parts == SplitSlash(Pathname(selectedRoot), 1, <<>>)
             vscodeIndex == IndexOfVscode(parts)
         IN  IF vscodeIndex > 0 THEN Name(parts[vscodeIndex]) ELSE Null

\* the symbols of the marker values tried: the separator, the control
\* segment and two other segments
PathSymbols == {"/", ".vscode", "proj1", "x"}

UrlExample ==
    Str(<<"file://", "/", "home", "/", "u", "/", "proj1", "/", ".vscode", "/", "launch.json">>)

\* the values of debug.selectedroot tried: file URLs with an empty host, and
\* strings without a scheme
MarkerChoices ==
    {<<"file://">> \o p : p \in {q \in SeqsUpTo(PathSymbols, MaxPathLen) : q = <<>> \/ q[1] = "/"}}
    \cup SeqsUpTo(PathSymbols, MaxPathLen)
    \cup {UrlExample.text, UrlNoCtl.text, UrlRoot.text, NotUrl.text}

\* getWorkspaceName is called with the string selectedRoot
CallGetWorkspaceName ==
    /\ call.fn = "getWorkspaceName" /\ ~call.returned
    /\ call' = [call EXCEPT !.returned = TRUE,
                            !.result = getWorkspaceName(call.selectedRoot)]
    /\ UNCHANGED <<backend, down, sync, manager, writes, latest, storage, config, cycles, uiStateFile, apply, passes,
                   sched>>

(***************************************************************************)
(* Databases                                                               *)
(***************************************************************************)
\* enumeration order of the databases (readdir / indexedDB.databases())
DbNames == <<"vscode-web-state-db-global", "vscode-web-state-db-ws1">>

DbSet == {DbNames[i] : i \in 1..Len(DbNames)}

\* the table names a database may hold, in the order of ORDER BY name and of
\* db.objectStoreNames
TableOrder == <<"ItemTable", "cursorTable">>

Stores == {<<"vscode-web-state-db-global", "ItemTable">>,
           <<"vscode-web-state-db-global", "cursorTable">>,
           <<"vscode-web-state-db-ws1", "ItemTable">>}

\* the store that may be missing at the start
OptionalStores == {<<"vscode-web-state-db-global", "cursorTable">>}

\* SELECT name FROM sqlite_master ... ORDER BY name / db.objectStoreNames
TablesOf(st, db) == SelectSeq(TableOrder, LAMBDA t : <<db, t>> \in DOMAIN st)

\* contents a table may start with
TableA1 ==
    [k \in {SelectedRoot, KHidden, KSecret} |->
        IF k = SelectedRoot THEN UrlA ELSE IF k = KHidden THEN VTrue ELSE VAbc]
TableA2 ==
    [k \in {SelectedRoot, KHidden, KGit, KGitSub} |->
        IF k = SelectedRoot THEN UrlA ELSE IF k = KHidden THEN VFalse ELSE VTrue]
TableB ==
    [k \in {SelectedRoot, KGit, EmptyKey} |-> IF k = SelectedRoot THEN UrlB ELSE VAbc]
TableNoMarker == [k \in {KHidden} |-> VTrue]
TableNotUrl == [k \in {SelectedRoot, KHidden} |-> IF k = SelectedRoot THEN NotUrl ELSE VTrue]
TableNumMarker == [k \in {SelectedRoot, KHidden} |-> IF k = SelectedRoot THEN VNum ELSE VTrue]
TableRoot == [k \in {SelectedRoot, KHidden} |-> IF k = SelectedRoot THEN UrlRoot ELSE VTrue]
TableNoCtl == [k \in {SelectedRoot, KSecret} |-> IF k = SelectedRoot THEN UrlNoCtl ELSE VAbc]

TableChoices ==
    {TableA1, TableA2, TableB, TableNoMarker, TableNotUrl, TableNumMarker, TableRoot, TableNoCtl}

\* the storage at the start: every store holds one of the contents, an
\* optional store may be missing
StorageChoices ==
    [Stores -> TableChoices] \cup [Stores \ OptionalStores -> TableChoices]

\* values of gistSettingsSync.uiStateSyncKeys
SafeKeyChoices == { <<>>, <<KHidden>>, <<KHidden, PExt>>, <<PStar>> }

(***************************************************************************)
(* Extraction Pipeline                                                     *)
(***************************************************************************)
\* a row loop that keeps every row with a key
SafeDataOfUnfiltered(table, safeKeysToSync) ==
    [k \in {x \in DOMAIN table : x # EmptyKey} |-> table[k]]

\* the row loop of extractDatabase: rows with a falsy key are skipped, the
\* marker and the safe keys are kept
SafeDataOf(table, safeKeysToSync) ==
    [k \in {x \in DOMAIN table :
                /\ x # EmptyKey
                /\ (x = SelectedRoot \/ isSafeKey(x, safeKeysToSync))} |-> table[k]]

SetEntry(result, workspaceName, tableName, data) ==
    Put(result, workspaceName,
        Put(IF workspaceName \in DOMAIN result THEN result[workspaceName] ELSE EmptyMap,
            tableName, data))

\* the table loop of extractDatabase, from table i on
RECURSIVE ExtractTables(_, _, _, _, _)
ExtractTables(st, db, i, safeKeysToSync, result) ==
    IF i > Len(TablesOf(st, db)) THEN result
    ELSE LET tableName == TablesOf(st, db)[i]
             safeData == SafeDataOf(st[<<db, tableName>>], safeKeysToSync)
             hasSelectedRoot == SelectedRoot \in DOMAIN safeData
             skip ==
                 \/ ~hasSelectedRoot
                 \/ safeData[SelectedRoot].type # "string"
                 \/ Falsy(getWorkspaceName(safeData[SelectedRoot].text))
         IN  IF skip THEN ExtractTables(st, db, i + 1, safeKeysToSync, result)
             ELSE ExtractTables(st, db, i + 1, safeKeysToSync,
                      SetEntry(result, getWorkspaceName(safeData[SelectedRoot].text).name,
                               tableName, safeData))

extractDatabase(st, db, safeKeysToSync) ==
    ExtractTables(st, db, 1, safeKeysToSync, EmptyMap)

\* a merge in which the entry already present is kept
MergeResultKeepFirst(exportedData, data) ==
    [w \in DOMAIN exportedData \cup DOMAIN data |->
        IF w \notin DOMAIN data THEN exportedData[w]
        ELSE IF w \notin DOMAIN exportedData THEN data[w]
        ELSE [t \in DOMAIN exportedData[w] \cup DOMAIN data[w] |->
                 IF t \in DOMAIN exportedData[w] THEN exportedData[w][t] ELSE data[w][t]]]

\* the merge loop of syncUIState over one extraction result
MergeResult(exportedData, data) ==
    [w \in DOMAIN exportedData \cup DOMAIN data |->
        IF w \notin DOMAIN data THEN exportedData[w]
        ELSE IF w \notin DOMAIN exportedData THEN data[w]
        ELSE [t \in DOMAIN exportedData[w] \cup DOMAIN data[w] |->
                 IF t \in DOMAIN data[w] THEN data[w][t] ELSE exportedData[w][t]]]

\* the merge loop of syncUIState over extractionResults, in enumeration order;
\* a null result (status "failed") is skipped
RECURSIVE MergeAll(_, _, _, _, _)
MergeAll(dbs, status, data, i, exportedData) ==
    IF i > Len(dbs) THEN exportedData
    ELSE MergeAll(dbs, status, data, i + 1,
             IF status[dbs[i]] = "ok" THEN MergeResult(exportedData, data[dbs[i]])
                                      ELSE exportedData)

(***************************************************************************)
(* One execution of syncUIState                                            *)
(***************************************************************************)
CycleIds == 1..MaxCycles

\* what the enumeration meets: whether the root (workspaceStorage on the host,
\* indexedDB.databases() in the sandbox) can be listed, and for each database
\* file of the host whether fs.access succeeds, fails with ENOENT or fails
\* with another error
AllAccessible == [root |-> TRUE, file |-> [d \in DbSet |-> "ok"]]

AccessChoices(bk) ==
    IF bk = "sandbox"
    THEN {AllAccessible, [AllAccessible EXCEPT !.root = FALSE]}
    ELSE {[AllAccessible EXCEPT !.root = FALSE]}
         \cup {[root |-> TRUE, file |-> f] : f \in [DbSet -> {"ok", "enoent", "error"}]}

\* getAllUIStateDatabases.  Host: a database file that does not exist is
\* skipped; any other error, of the root or of one file, is caught by the
\* outer try and the result is [].  Sandbox: without indexedDB.databases()
\* the result is the global database alone
getAllUIStateDatabases(bk, access) ==
    IF bk = "sandbox"
    THEN IF access.root THEN DbNames ELSE <<"vscode-web-state-db-global">>
    ELSE IF ~access.root \/ \E d \in DbSet : access.file[d] = "error" THEN <<>>
    ELSE SelectSeq(DbNames, LAMBDA d : access.file[d] = "ok")

IdleCycle ==
    [ pc |-> "idle",
      origin |-> "none",
      safeKeysToSync |-> <<>>,
      access |-> [root |-> TRUE, file |-> [d \in DbSet |-> "ok"]],
      dbs |-> <<>>,
      completed |-> <<>>,
      status |-> [d \in DbSet |-> "none"],
      data |-> [d \in DbSet |-> EmptyMap],
      readOk |-> {},
      readFail |-> {},
      exportedData |-> EmptyMap,
      caught |-> "none",
      posted |-> <<>>,
      open |-> {},
      closeFailed |-> {} ]

\* where the extraction of one database may fail: nowhere, opening it, reading
\* its i-th table, or (host) closing it
Failures(st, db) ==
    {[at |-> "none", table |-> 0], [at |-> "open", table |-> 0], [at |-> "close", table |-> 0]}
    \cup {[at |-> "read", table |-> i] : i \in 1..Len(TablesOf(st, db))}

\* syncUIState up to its first await
BeginCycle(c, origin, safeKeysToSync) ==
    /\ cycles[c].pc \in {"idle", "done"}
    /\ cycles' = [cycles EXCEPT ![c] =
           [IdleCycle EXCEPT
               !.pc = "listing",
               !.origin = origin,
               !.safeKeysToSync = IF backend = "sandbox" THEN safeKeysToSync ELSE <<>>,
               !.posted = IF backend = "sandbox" THEN <<"syncUiStateStart">> ELSE <<>>]]

\* a timer callback or a start calls syncUIState
CallSyncUIState(c) ==
    /\ BeginCycle(c, "call", config.uiStateSyncKeys)
    /\ UNCHANGED <<backend, down, sync, manager, call, writes, latest, storage, config, uiStateFile, apply, passes, sched>>

\* getAllUIStateDatabases resolved and every extractDatabase call ran up to
\* its first await (the host reads the configuration there)
Listed(cy, bk, cfg, access) ==
    LET dbs == getAllUIStateDatabases(bk, access)
    IN [cy EXCEPT
           !.pc = "extracting",
           !.access = access,
           !.dbs = dbs,
           !.safeKeysToSync = IF bk = "host" THEN cfg.uiStateSyncKeys ELSE @,
           !.status = [d \in DbSet |-> IF Includes(dbs, d) THEN "pending" ELSE "none"]]

ListDatabases(c, access) ==
    /\ cycles[c].pc = "listing"
    /\ access \in AccessChoices(backend)
    /\ cycles' = [cycles EXCEPT ![c] = Listed(@, backend, config, access)]
    /\ UNCHANGED <<backend, down, sync, manager, call, writes, latest, storage, config, uiStateFile, apply, passes, sched>>

ReadBefore(st, db, f) ==
    IF f.at = "read" THEN {<<db, TablesOf(st, db)[i]>> : i \in 1..(f.table - 1)}
    ELSE IF f.at \in {"none", "close"} THEN {<<db, TablesOf(st, db)[i]>> : i \in 1..Len(TablesOf(st, db))}
    ELSE {}

\* what extractDatabase(db) inside the try/catch of syncUIState settles to: the
\* extracted data, or null (status "failed") when anything in it threw
DbResult(st, db, safeKeysToSync, f) ==
    IF f.at = "none"
    THEN [status |-> "ok", data |-> extractDatabase(st, db, safeKeysToSync)]
    ELSE [status |-> "failed", data |-> EmptyMap]

\* the connections extractDatabase(db) leaves open when it settles.  Host:
\* the finally of withDatabase closes what was opened, unless close() itself
\* throws.  Sandbox: what openDB returned is never closed
StillOpen(db, f) ==
    IF f.at = "open" THEN {}
    ELSE IF backend = "host" THEN (IF f.at = "close" THEN {db} ELSE {})
    ELSE {db}

\* one element of the Promise.all of syncUIState settled
Settled(cy, st, db, f) ==
    LET r == DbResult(st, db, cy.safeKeysToSync, f)
    IN [cy EXCEPT
           !.open = @ \cup StillOpen(db, f),
           !.closeFailed = @ \cup (IF f.at = "close" THEN {db} ELSE {}),
           !.status[db] = r.status,
           !.data[db] = r.data,
           !.completed = Append(@, db),
           !.readOk = @ \cup ReadBefore(st, db, f),
           !.readFail = @ \cup (IF f.at = "read" THEN {<<db, TablesOf(st, db)[f.table]>>} ELSE {})]

ExtractDb(c, db, f) ==
    /\ cycles[c].pc = "extracting"
    /\ cycles[c].status[db] = "pending"
    /\ f.at = "close" => backend = "host"
    /\ cycles' = [cycles EXCEPT ![c] = Settled(@, storage, db, f)]
    /\ UNCHANGED <<backend, down, sync, manager, call, writes, latest, storage, config, uiStateFile, apply, passes, sched>>

\* a merge that takes the results in the order in which they settled
MergeOrderByCompletion(cy) == cy.completed

\* Promise.all resolves to the results in the order of dbNames, whatever the
\* order in which the extractions settled
MergeOrder(cy) == cy.dbs

\* an end of syncUIState that returns without a result message when a
\* database could not be extracted
FinishedSilentOnFailure(cy, bk, written) ==
    [cy EXCEPT
        !.pc = "done",
        !.exportedData = MergeAll(MergeOrder(cy), cy.status, cy.data, 1, EmptyMap),
        !.posted =
            IF bk = "host" THEN @
            ELSE IF \E d \in DbSet : cy.status[d] = "failed"
            THEN @ \o <<"syncUiStateFinish">>
            ELSE @ \o <<"syncUiState:uiState", "syncUiStateFinish">>]

\* Promise.all settled: the results are merged, then uiState.json is written
\* (host) or the snapshot is posted (sandbox); a rejection or a failed write
\* lands in the outer catch
Finished(cy, bk, written) ==
    LET rejected == \E d \in DbSet : cy.status[d] = "threw"
    IN [cy EXCEPT
           !.pc = "done",
           !.exportedData =
               IF rejected THEN EmptyMap
               ELSE MergeAll(MergeOrder(cy), cy.status, cy.data, 1, EmptyMap),
           !.caught = IF rejected THEN "extract"
                      ELSE IF bk = "host" /\ ~written THEN "write" ELSE "none",
           !.posted =
               IF bk = "host" THEN @
               ELSE IF rejected THEN @ \o <<"syncUiState:error", "syncUiStateFinish">>
               ELSE @ \o <<"syncUiState:uiState", "syncUiStateFinish">>]

\* uiState.json after the cycle ended
FileAfter(cy, bk, file) ==
    IF bk = "host" /\ cy.caught = "none"
    THEN [exists |-> TRUE, data |-> cy.exportedData]
    ELSE file

FinishCycle(c, written) ==
    /\ cycles[c].pc = "extracting"
    /\ \A d \in DbSet : cycles[c].status[d] # "pending"
    /\ written \/ backend = "host"
    /\ cycles' = [cycles EXCEPT ![c] = Finished(@, backend, written)]
    /\ uiStateFile' = FileAfter(cycles'[c], backend, uiStateFile)
    /\ UNCHANGED <<backend, down, sync, manager, call, writes, latest, storage, config, apply, passes, sched>>

NoFailure == [at |-> "none", table |-> 0]

RECURSIVE SettledAll(_, _, _)
SettledAll(cy, st, i) ==
    IF i > Len(cy.dbs) THEN cy
    ELSE SettledAll(Settled(cy, st, cy.dbs[i], NoFailure), st, i + 1)

\* the rest of syncUIState after its first await, without a failure
CompleteCycle(c) ==
    /\ cycles[c].pc = "listing"
    /\ cycles' = [cycles EXCEPT ![c] =
           Finished(SettledAll(Listed(@, backend, config, AllAccessible), storage, 1), backend, TRUE)]
    /\ uiStateFile' = FileAfter(cycles'[c], backend, uiStateFile)
    /\ UNCHANGED <<backend, down, sync, manager, call, writes, latest, storage, config, apply, passes, sched>>

(***************************************************************************)
(* Apply Pipeline                                                          *)
(***************************************************************************)
\* the order in which "for (const key in newTableData)" visits the keys
KeyOrder == <<SelectedRoot, KHidden, KGit, KGitSub, KSecret>>

KeysOf(newTableData) == SelectSeq(KeyOrder, LAMBDA k : k \in DOMAIN newTableData)

\* a write that inserts a missing key and leaves an existing one as it is
WriteKeyInsertOnly(table, key, value) ==
    IF key \in DOMAIN table THEN table ELSE Put(table, key, value)

\* a write that stores the JSON text of the value instead of the value
WriteKeyStringified(table, key, value) ==
    LET json == [type |-> "string", text |-> <<"\"">> \o value.text \o <<"\"">>]
    IN  IF key \in DOMAIN table THEN [table EXCEPT ![key] = json]
                                ELSE Put(table, key, json)

\* UPDATE ... SET value WHERE key (the key exists) or INSERT (it does not);
\* store.put(value, key) in the sandbox
WriteKey(table, key, value) ==
    IF key \in DOMAIN table THEN [table EXCEPT ![key] = value]
                            ELSE Put(table, key, value)

\* the write loop of updateTable / of setUIState: the first n keys written
RECURSIVE WriteKeys(_, _, _, _)
WriteKeys(table, newTableData, keys, n) ==
    IF n = 0 THEN table
    ELSE WriteKey(WriteKeys(table, newTableData, keys, n - 1),
                  keys[n], newTableData[keys[n]])

\* where the transaction of one table may fail: nowhere, at BEGIN (opening the
\* transaction), at the n-th write, or at COMMIT (tx.done)
TxFailures(newTableData) ==
    {[at |-> "none", n |-> 0], [at |-> "begin", n |-> 0], [at |-> "commit", n |-> 0]}
    \cup {[at |-> "write", n |-> i] : i \in 1..Len(KeysOf(newTableData))}

WrittenBefore(newTableData, f) ==
    IF f.at = "begin" THEN 0
    ELSE IF f.at = "write" THEN f.n - 1
    ELSE Len(KeysOf(newTableData))

\* a transaction that keeps what it wrote before the failure
updateTableNoRollback(table, newTableData, f) ==
    WriteKeys(table, newTableData, KeysOf(newTableData), WrittenBefore(newTableData, f))

\* a transaction that replaces the contents of the table
updateTableReplace(table, newTableData, f) ==
    IF f.at = "none" THEN newTableData ELSE table

\* updateTable (host) and the per-store transaction of setUIState (sandbox):
\* the contents of the table when the transaction has ended.  A failure ends
\* in ROLLBACK (host) or aborts the transaction (sandbox), which restores the
\* contents the table had at BEGIN
updateTable(table, newTableData, f) ==
    LET inTx == WriteKeys(table, newTableData, KeysOf(newTableData),
                          WrittenBefore(newTableData, f))
    IN  IF f.at = "none" THEN inTx ELSE table

\* the incoming map for a table whatever workspace it is filed under
IncomingAnyWorkspace(bk, table, tableName, newState) ==
    IF \E w \in DOMAIN newState : tableName \in DOMAIN newState[w]
    THEN [skip |-> FALSE,
          data |-> newState[CHOOSE w \in DOMAIN newState : tableName \in DOMAIN newState[w]][tableName]]
    ELSE [skip |-> TRUE, data |-> EmptyMap]

\* the checks of setUIState before it writes: the marker record of the table
\* must exist and be a (host: non-empty) string, resolve to a workspace name,
\* and the incoming state must hold that workspace and table
Incoming(bk, table, tableName, newState) ==
    IF \/ SelectedRoot \notin DOMAIN table
       \/ table[SelectedRoot].type # "string"
       \/ bk = "host" /\ table[SelectedRoot].text = <<>>
    THEN [skip |-> TRUE, data |-> EmptyMap]
    ELSE LET workspaceName == getWorkspaceName(table[SelectedRoot].text)
         IN  IF \/ Falsy(workspaceName)
                \/ workspaceName.name \notin DOMAIN newState
                \/ tableName \notin DOMAIN newState[workspaceName.name]
             THEN [skip |-> TRUE, data |-> EmptyMap]
             ELSE [skip |-> FALSE, data |-> newState[workspaceName.name][tableName]]

IdleApply ==
    [ pc |-> "idle",
      newState |-> EmptyMap,
      pre |-> EmptyMap,
      dbs |-> <<>>,
      db |-> 0,
      phase |-> "open",
      table |-> 0,
      visited |-> {},
      failedTx |-> {},
      partialTx |-> {},
      markerFailed |-> {},
      openFailed |-> {},
      threw |-> "none",
      posted |-> <<>>,
      again |-> FALSE,
      open |-> {} ]

\* the pass moves on to database i, or ends after the last one
NextDb(a, i) ==
    IF i > Len(a.dbs) THEN [a EXCEPT !.pc = "done", !.db = 0, !.phase = "open", !.table = 0]
    ELSE [a EXCEPT !.db = i, !.phase = "open", !.table = 0]

\* the pass moves on to table j of the open database, or to closing it
NextTable(a, st, j) ==
    IF j > Len(TablesOf(st, a.dbs[a.db])) THEN [a EXCEPT !.phase = "close", !.table = 0]
    ELSE [a EXCEPT !.phase = "tables", !.table = j]

\* setUIState rejects: the pass ends where it is
Reject(a, cause) == [a EXCEPT !.pc = "done", !.threw = cause]

\* a pass in which no open, no read and no transaction failed
CleanPass(a) ==
    a.failedTx = {} /\ a.markerFailed = {} /\ a.openFailed = {} /\ a.threw = "none"

\* setUIState up to the first database: the databases are listed and the
\* incoming state is read.  again is history: the pass before this one has
\* ended without a failure and had the same incoming state and databases
Begun(newState, listed) ==
    LET dbs == getAllUIStateDatabases(backend, [AllAccessible EXCEPT !.root = listed])
    IN NextDb([IdleApply EXCEPT
                  !.pc = "running",
                  !.again = /\ apply.pc = "done" /\ CleanPass(apply)
                            /\ apply.newState = newState /\ apply.dbs = dbs,
                  !.newState = newState,
                  !.pre = storage,
                  !.dbs = dbs,
                  !.posted = IF backend = "sandbox"
                             THEN <<"setUiStateStart">> ELSE <<>>], 1)

BeginApply(newState, listed) ==
    /\ apply.pc \in {"idle", "done"}
    /\ apply' = Begun(newState, listed)
    /\ UNCHANGED <<backend, down, sync, manager, call, writes, latest, storage, config, cycles, uiStateFile, passes, sched>>

\* host: setUIState() is called; the incoming state is the content of
\* uiState.json, without which the pass ends at once
CallSetUIState(listed) ==
    /\ backend = "host"
    /\ IF uiStateFile.exists
       THEN BeginApply(uiStateFile.data, listed)
       ELSE /\ apply.pc \in {"idle", "done"}
            /\ apply' = [IdleApply EXCEPT !.pc = "done", !.pre = storage]
            /\ UNCHANGED <<backend, down, sync, manager, call, writes, latest, storage, config, cycles, uiStateFile, passes, sched>>

\* sandbox: the message listener receives gistSettingsSync.setUiState
ReceiveSetUiState(newState, listed) ==
    /\ backend = "sandbox"
    /\ BeginApply(newState, listed)

\* withDatabase opens the database and lists its tables (host); openDB (sandbox)
ApplyOpenDb(f) ==
    /\ apply.pc = "running" /\ apply.phase = "open"
    /\ f = "list" => backend = "host"
    /\ apply' =
          IF f = "ok"
          THEN NextTable([apply EXCEPT !.open = @ \cup {apply.dbs[apply.db]}], storage, 1)
          ELSE IF backend = "host" THEN Reject(apply, f)
          ELSE NextDb([apply EXCEPT
                          !.openFailed = @ \cup {apply.dbs[apply.db]},
                          !.posted = @ \o <<"setUiStateFinish:error">>], apply.db + 1)
    /\ UNCHANGED <<backend, down, sync, manager, call, writes, latest, storage, config, cycles, uiStateFile, passes, sched>>

\* one iteration of the table loop of setUIState
ApplyTable(markerRead, f) ==
    /\ apply.pc = "running" /\ apply.phase = "tables"
    /\ LET db == apply.dbs[apply.db]
           tableName == TablesOf(storage, db)[apply.table]
           store == <<db, tableName>>
           in == Incoming(backend, storage[store], tableName, apply.newState)
           a == [apply EXCEPT !.visited = @ \cup {store}]
       IN  IF ~markerRead
           THEN /\ f.at = "none"
                /\ apply' = IF backend = "host"
                            THEN Reject([a EXCEPT !.open = @ \ {db}], "marker")
                            ELSE NextTable([a EXCEPT !.markerFailed = @ \cup {store}],
                                           storage, apply.table + 1)
                /\ UNCHANGED storage
           ELSE IF in.skip
           THEN /\ f.at = "none"
                /\ apply' = NextTable(a, storage, apply.table + 1)
                /\ UNCHANGED storage
           ELSE /\ f \in TxFailures(in.data)
                /\ storage' = [storage EXCEPT ![store] = updateTable(@, in.data, f)]
                /\ apply' = NextTable(
                       [a EXCEPT
                           !.failedTx = IF f.at = "none" THEN @ ELSE @ \cup {store},
                           !.partialTx = IF f.at # "none" /\ WrittenBefore(in.data, f) > 0
                                         THEN @ \cup {store} ELSE @],
                       storage, apply.table + 1)
    /\ UNCHANGED <<backend, down, sync, manager, call, writes, latest, config, cycles, uiStateFile, passes, sched>>

\* the connections open after the loop over the tables of a database: the
\* finally of withDatabase closed it (host); nothing closes it (sandbox)
Closed(open, db) == IF backend = "host" THEN open \ {db} ELSE open

\* the database is done: db.close() in the finally of withDatabase (host);
\* setUiStateFinish is posted (sandbox)
ApplyCloseDb(closed) ==
    /\ apply.pc = "running" /\ apply.phase = "close"
    /\ closed \/ backend = "host"
    /\ apply' =
          IF ~closed THEN Reject(apply, "close")
          ELSE NextDb([apply EXCEPT
                          !.open = Closed(@, apply.dbs[apply.db]),
                          !.posted = IF backend = "sandbox"
                                     THEN @ \o <<"setUiStateFinish">> ELSE @],
                      apply.db + 1)
    /\ UNCHANGED <<backend, down, sync, manager, call, writes, latest, storage, config, cycles, uiStateFile, passes, sched>>

(***************************************************************************)
(* Host: executions of setUIState statement by statement, to see the       *)
(* transactions they hold open                                             *)
(***************************************************************************)
PassIds == 1..MaxPasses

IdlePass ==
    [ pc |-> "idle", newState |-> EmptyMap, db |-> 0, table |-> 0, tx |-> FALSE ]

\* the store the pass is at
PassStore(ps) == <<DbNames[ps.db], TablesOf(storage, DbNames[ps.db])[ps.table]>>

\* the table loop of the pass goes on with table j, or the database is closed
PassNextTable(ps, j) ==
    IF j > Len(TablesOf(storage, DbNames[ps.db]))
    THEN [ps EXCEPT !.pc = "close", !.table = 0, !.tx = FALSE]
    ELSE [ps EXCEPT !.pc = "marker", !.table = j, !.tx = FALSE]

\* setUIState is called and reads uiState.json; nothing stops a call while
\* another one is running
PassCall(p) ==
    /\ backend = "host"
    /\ passes[p].pc = "idle"
    /\ passes' = [passes EXCEPT ![p] =
           IF uiStateFile.exists
           THEN [IdlePass EXCEPT !.pc = "open", !.newState = uiStateFile.data, !.db = 1]
           ELSE [IdlePass EXCEPT !.pc = "done"]]
    /\ UNCHANGED <<backend, down, sync, manager, call, writes, latest, storage, config, cycles, uiStateFile, apply, sched>>

\* withDatabase: Database.open gives the pass a connection of its own
PassOpenDb(p) ==
    /\ passes[p].pc = "open"
    /\ passes' = [passes EXCEPT ![p] = PassNextTable(@, 1)]
    /\ UNCHANGED <<backend, down, sync, manager, call, writes, latest, storage, config, cycles, uiStateFile, apply, sched>>

\* the marker of the table is read and checked against the incoming state
PassMarker(p) ==
    /\ passes[p].pc = "marker"
    /\ LET ps == passes[p]
           in == Incoming(backend, storage[PassStore(ps)], PassStore(ps)[2], ps.newState)
       IN  passes' = [passes EXCEPT ![p] =
               IF in.skip THEN PassNextTable(ps, ps.table + 1) ELSE [ps EXCEPT !.pc = "begin"]]
    /\ UNCHANGED <<backend, down, sync, manager, call, writes, latest, storage, config, cycles, uiStateFile, apply, sched>>

\* updateTable: BEGIN TRANSACTION on the connection of the pass
PassBegin(p, ok) ==
    /\ passes[p].pc = "begin"
    /\ passes' = [passes EXCEPT ![p] =
           IF ok THEN [@ EXCEPT !.pc = "intx", !.tx = TRUE]
           ELSE PassNextTable(@, @.table + 1)]
    /\ UNCHANGED <<backend, down, sync, manager, call, writes, latest, storage, config, cycles, uiStateFile, apply, sched>>

\* updateTable: the write loop and COMMIT, or a failure and ROLLBACK
PassEndTx(p, f) ==
    /\ passes[p].pc = "intx"
    /\ LET ps == passes[p]
           in == Incoming(backend, storage[PassStore(ps)], PassStore(ps)[2], ps.newState)
       IN  /\ f \in TxFailures(in.data) /\ f.at # "begin"
           /\ storage' = [storage EXCEPT ![PassStore(ps)] = updateTable(@, in.data, f)]
           /\ passes' = [passes EXCEPT ![p] = PassNextTable(ps, ps.table + 1)]
    /\ UNCHANGED <<backend, down, sync, manager, call, writes, latest, config, cycles, uiStateFile, apply, sched>>

\* withDatabase: db.close(), then the next database or the end of the pass
PassCloseDb(p) ==
    /\ passes[p].pc = "close"
    /\ passes' = [passes EXCEPT ![p] =
           IF @.db + 1 > Len(DbNames) THEN [@ EXCEPT !.pc = "done", !.db = 0]
           ELSE [@ EXCEPT !.pc = "open", !.db = @ + 1]]
    /\ UNCHANGED <<backend, down, sync, manager, call, writes, latest, storage, config, cycles, uiStateFile, apply, sched>>

(***************************************************************************)
(* Sync Scheduler                                                          *)
(***************************************************************************)
\* the timer state of one adapter
Sch == [timers |-> timers, nextTimer |-> nextTimer, syncTimer |-> syncTimer,
        lastCmd |-> lastCmd, startsInARow |-> startsInARow]

\* a timer handle that was never set
NoTimer == [active |-> FALSE, interval |-> 0, safeKeysToSync |-> <<>>]

ActiveTimers == {t \in 1..MaxTimers : timers[t].active}

\* syncTimer = setInterval(..., interval): the handle is overwritten
SetInterval(S, interval, safeKeysToSync) ==
    [S EXCEPT !.timers[S.nextTimer] =
                  [active |-> TRUE, interval |-> interval, safeKeysToSync |-> safeKeysToSync],
              !.syncTimer = S.nextTimer,
              !.nextTimer = @ + 1,
              !.lastCmd = "start",
              !.startsInARow = IF @ < 2 THEN @ + 1 ELSE 2]

\* if (syncTimer) { clearInterval(syncTimer); syncTimer = null }
ClearInterval(S) ==
    IF S.syncTimer # 0
    THEN [S EXCEPT !.timers[S.syncTimer].active = FALSE, !.syncTimer = 0]
    ELSE S

\* config.uiStateSyncInterval * 60 * 1000
IntervalMillis(cfg) == cfg.uiStateSyncInterval * 60 * 1000

\* whether the start of this adapter calls syncUIState before setInterval
StartsImmediately(bk) == bk = "sandbox"

\* host: startUiSync, stopUiSync, disposeUiSync, restartUiSync
startUiSyncHost(S, cfg) == SetInterval(S, IntervalMillis(cfg), <<>>)

stopUiSyncHost(S) == [ClearInterval(S) EXCEPT !.lastCmd = "stop", !.startsInARow = 0]

disposeUiSyncHost(S) == [ClearInterval(S) EXCEPT !.lastCmd = "dispose", !.startsInARow = 0]

restartUiSyncHost(S, cfg) == startUiSyncHost(stopUiSyncHost(S), cfg)

\* the messages of codeServer.ts to the webview
StartMsg(cfg) ==
    [command |-> "gistSettingsSync.syncUiState",
     syncIntervalMillis |-> IntervalMillis(cfg),
     safeKeysToSync |-> cfg.uiStateSyncKeys]

StopMsg ==
    [command |-> "gistSettingsSync.stopSyncUiState",
     syncIntervalMillis |-> 0,
     safeKeysToSync |-> <<>>]

\* codeServer.ts importUiState: the posted message
ImportMsg(cfg, newState) ==
    [command |-> "gistSettingsSync.importUiState",
     syncIntervalMillis |-> IntervalMillis(cfg),
     safeKeysToSync |-> cfg.uiStateSyncKeys,
     uiState |-> newState]

\* codeServer.ts startUiSync: the message is posted when the panel exists and
\* UI state is included
startUiSyncCodeServer(ch, pnl, cfg) ==
    IF pnl /\ cfg.includeUIState THEN Append(ch, StartMsg(cfg)) ELSE ch

\* codeServer.ts stopUiSync
stopUiSyncCodeServer(ch, pnl, cfg) ==
    IF pnl /\ cfg.includeUIState THEN Append(ch, StopMsg) ELSE ch

Free(c) == cycles[c].pc \in {"idle", "done"}

InFlight == {c \in CycleIds : ~Free(c)}

LowestFree == CHOOSE c \in CycleIds : Free(c) /\ \A d \in 1..(c - 1) : ~Free(d)

SetSch(S) ==
    /\ S.nextTimer <= MaxTimers + 1
    /\ timers' = S.timers
    /\ nextTimer' = S.nextTimer
    /\ syncTimer' = S.syncTimer
    /\ lastCmd' = S.lastCmd
    /\ startsInARow' = S.startsInARow

\* initUiSync: the configuration listener is registered; on code-server the
\* webview is created and started when UI state is included
Activate ==
    /\ ~activated
    /\ activated' = TRUE
    /\ IF backend = "sandbox" /\ config.includeUIState
       THEN /\ panel' = TRUE
            /\ chan' = startUiSyncCodeServer(chan, TRUE, config)
       ELSE UNCHANGED <<panel, chan>>
    /\ UNCHANGED <<backend, down, sync, manager, call, writes, latest, storage, config, cycles, uiStateFile, apply, passes,
                   timers, nextTimer, syncTimer, restarts, lastCmd, startsInARow>>

\* the values the settings may be changed to
SchedConfigs ==
    [includeUIState : BOOLEAN,
     uiStateSyncKeys : {<<KHidden>>},
     uiStateSyncInterval : {10, 20}]

\* host: the onDidChangeConfiguration listener of initUiSync, with the
\* restartUiSync it starts run to its end
HostConfigChange(new) ==
    /\ backend = "host" /\ activated
    /\ new # config
    /\ config' = new
    /\ LET affectsInclude == new.includeUIState # config.includeUIState
           affectsRestart == \/ new.uiStateSyncKeys # config.uiStateSyncKeys
                             \/ new.uiStateSyncInterval # config.uiStateSyncInterval
           S1 == IF ~affectsInclude THEN Sch
                 ELSE IF ~new.includeUIState THEN disposeUiSyncHost(Sch)
                 ELSE startUiSyncHost(Sch, new)
           S2 == IF affectsRestart THEN restartUiSyncHost(S1, new) ELSE S1
       IN  /\ SetSch(S2)
           /\ IF StartsImmediately(backend) /\ S2.nextTimer > nextTimer
              THEN InFlight # CycleIds /\ BeginCycle(LowestFree, "start", <<>>)
              ELSE UNCHANGED cycles
    /\ UNCHANGED <<backend, down, sync, manager, call, writes, latest, storage, uiStateFile, apply, passes, chan, panel, activated, restarts>>

\* code-server: the onDidChangeConfiguration listener of initUiSync, up to
\* the await of restartUiSync.  Disposing the panel ends the webview with its
\* timers, its listener and whatever it was running
CodeServerConfigChange(new) ==
    /\ backend = "sandbox" /\ activated
    /\ new # config
    /\ config' = new
    /\ LET affectsInclude == new.includeUIState # config.includeUIState
           affectsRestart == \/ new.uiStateSyncKeys # config.uiStateSyncKeys
                             \/ new.uiStateSyncInterval # config.uiStateSyncInterval
           disposed == affectsInclude /\ ~new.includeUIState /\ panel
           panel1 == IF affectsInclude THEN new.includeUIState ELSE panel
           chan1 == IF disposed THEN <<>> ELSE chan
           posts == affectsRestart /\ panel1 /\ new.includeUIState
       IN  /\ panel' = panel1
           /\ chan' = IF affectsRestart THEN stopUiSyncCodeServer(chan1, panel1, new) ELSE chan1
           /\ Len(chan') <= MaxChan
           /\ restarts' = IF posts THEN restarts + 1 ELSE restarts
           /\ restarts' <= MaxRestarts
           /\ IF disposed
              THEN /\ timers' = [t \in 1..MaxTimers |-> NoTimer]
                   /\ nextTimer' = 1
                   /\ syncTimer' = 0
                   /\ lastCmd' = "dispose"
                   /\ startsInARow' = 0
                   /\ cycles' = [c \in CycleIds |-> IdleCycle]
                   /\ apply' = IdleApply
              ELSE UNCHANGED <<timers, syncTimer, lastCmd, startsInARow, cycles, apply, nextTimer>>
    /\ UNCHANGED <<backend, down, sync, manager, call, writes, latest, storage, uiStateFile, passes, activated>>

\* code-server: restartUiSync goes on after "await stopUiSync()"
RestartResume ==
    /\ backend = "sandbox"
    /\ restarts > 0
    /\ restarts' = restarts - 1
    /\ chan' = startUiSyncCodeServer(chan, panel, config)
    /\ Len(chan') <= MaxChan
    /\ UNCHANGED <<backend, down, sync, manager, call, writes, latest, storage, config, cycles, uiStateFile, apply, passes,
                   timers, nextTimer, syncTimer, panel, activated, lastCmd, startsInARow>>

\* code-server: importUiState posts the incoming state to the webview when
\* the panel exists
importUiState(newState) ==
    /\ backend = "sandbox"
    /\ panel
    /\ chan' = Append(chan, ImportMsg(config, newState))
    /\ Len(chan') <= MaxChan
    /\ UNCHANGED <<backend, down, sync, manager, call, writes, latest, storage, config, cycles, uiStateFile, apply, passes,
                   timers, nextTimer, syncTimer, panel, activated, restarts, lastCmd,
                   startsInARow>>

\* sandbox: the message listener takes the next message: the switch on
\* message.command with its cases gistSettingsSync.setUiState,
\* gistSettingsSync.syncUiState, gistSettingsSync.stopSyncUiState and the
\* default case, which ignores the message
SandboxReceive ==
    /\ backend = "sandbox"
    /\ chan # <<>>
    /\ chan' = Tail(chan)
    /\ LET m == Head(chan)
       IN  IF m.command = "gistSettingsSync.setUiState"
           THEN /\ apply.pc \in {"idle", "done"}
                /\ apply' = Begun(m.uiState, TRUE)
                /\ UNCHANGED <<cycles, timers, nextTimer, syncTimer, lastCmd, startsInARow>>
           ELSE IF m.command = "gistSettingsSync.syncUiState"
           THEN /\ SetSch(SetInterval(Sch, m.syncIntervalMillis, m.safeKeysToSync))
                /\ IF StartsImmediately(backend)
                   THEN InFlight # CycleIds /\ BeginCycle(LowestFree, "start", m.safeKeysToSync)
                   ELSE UNCHANGED cycles
                /\ UNCHANGED apply
           ELSE IF m.command = "gistSettingsSync.stopSyncUiState"
           THEN /\ SetSch([ClearInterval(Sch) EXCEPT !.lastCmd = "stop", !.startsInARow = 0])
                /\ UNCHANGED <<cycles, apply>>
           ELSE UNCHANGED <<cycles, apply, timers, nextTimer, syncTimer, lastCmd, startsInARow>>
    /\ UNCHANGED <<backend, down, sync, manager, call, writes, latest, storage, config, uiStateFile, passes, panel, activated, restarts>>

\* the callback of an interval timer runs
Tick(t) ==
    /\ timers[t].active
    /\ InFlight # CycleIds
    /\ BeginCycle(LowestFree, "tick", timers[t].safeKeysToSync)
    /\ UNCHANGED <<backend, down, sync, manager, call, writes, latest, storage, config, uiStateFile, apply, passes, sched>>

(***************************************************************************)
(* Specification of the extraction pipeline                                *)
(***************************************************************************)
\* a webview that sets an interval timer of its own when it is loaded
SchedulerSelfStarted ==
    /\ timers = [t \in 1..MaxTimers |->
                    IF t = 1 THEN [active |-> TRUE, interval |-> 600000, safeKeysToSync |-> <<>>]
                    ELSE NoTimer]
    /\ nextTimer = 1
    /\ syncTimer = 0
    /\ chan = <<>>
    /\ panel = FALSE
    /\ activated = FALSE
    /\ restarts = 0
    /\ lastCmd = "none"
    /\ startsInARow = 0

\* the scheduler after the module is loaded
SchedulerIdle ==
    /\ timers = [t \in 1..MaxTimers |-> NoTimer]
    /\ nextTimer = 1
    /\ syncTimer = 0
    /\ chan = <<>>
    /\ panel = FALSE
    /\ activated = FALSE
    /\ restarts = 0
    /\ lastCmd = "none"
    /\ startsInARow = 0

ConfigOf(keys) ==
    [includeUIState |-> TRUE, uiStateSyncKeys |-> keys, uiStateSyncInterval |-> 10]

InitExtract ==
    /\ backend \in {"host", "sandbox"}
    /\ storage \in StorageChoices
    /\ config \in {ConfigOf(k) : k \in SafeKeyChoices}
    /\ cycles = [c \in CycleIds |-> IdleCycle]
    /\ uiStateFile = [exists |-> FALSE, data |-> EmptyMap]
    /\ apply = IdleApply
    /\ passes = [p \in PassIds |-> IdlePass]
    /\ writes = <<>>
    /\ latest = [exists |-> FALSE, data |-> EmptyMap]
    /\ call = NoCall
    /\ manager = NewManager
    /\ sync = IdleSync
    /\ down = IdleDown
    /\ SchedulerIdle

\* extraction only reads the storage, so one execution at a time shows all of it
NextExtract ==
    \/ CallSyncUIState(1)
    \/ \E access \in AccessChoices("host") \cup AccessChoices("sandbox") : ListDatabases(1, access)
    \/ \E db \in DbSet : \E f \in Failures(storage, db) : ExtractDb(1, db, f)
    \/ \E written \in BOOLEAN : FinishCycle(1, written)

SpecExtract == InitExtract /\ [][NextExtract]_vars

(***************************************************************************)
(* Specification of repeated extraction: two executions of syncUIState on  *)
(* the same storage, one after the other or overlapping                    *)
(***************************************************************************)
InitRepeat ==
    /\ backend \in {"host", "sandbox"}
    /\ storage \in [Stores -> {TableA1, TableA2, TableB}]
                    \cup [Stores \ OptionalStores -> {TableA1, TableA2, TableB}]
    /\ config \in {ConfigOf(k) : k \in {<<KHidden, PExt>>, <<PStar>>}}
    /\ cycles = [c \in CycleIds |-> IdleCycle]
    /\ uiStateFile = [exists |-> FALSE, data |-> EmptyMap]
    /\ apply = IdleApply
    /\ passes = [p \in PassIds |-> IdlePass]
    /\ writes = <<>>
    /\ latest = [exists |-> FALSE, data |-> EmptyMap]
    /\ call = NoCall
    /\ manager = NewManager
    /\ sync = IdleSync
    /\ down = IdleDown
    /\ SchedulerIdle

NextRepeat ==
    \/ \E c \in {1, 2} : cycles[c].pc = "idle" /\ CallSyncUIState(c)
    \/ \E c \in {1, 2} : \E access \in {AllAccessible, [AllAccessible EXCEPT !.root = FALSE]} :
          ListDatabases(c, access)
    \/ \E c \in {1, 2} : \E db \in DbSet :
          \E f \in {[at |-> "none", table |-> 0], [at |-> "open", table |-> 0]} : ExtractDb(c, db, f)
    \/ \E c \in {1, 2} : FinishCycle(c, TRUE)

SpecRepeat == InitRepeat /\ [][NextRepeat]_vars

(***************************************************************************)
(* Specification of the apply pipeline                                     *)
(***************************************************************************)
WsA == <<"projA">>
WsB == <<"projB">>
WsC == <<"projC">>

OneTable(tableName, data) == [t \in {tableName} |-> data]

\* incoming snapshots
SnapshotChoices ==
    { EmptyMap,
      [w \in {WsA} |->
          OneTable("ItemTable", [k \in {KHidden, KGit} |->
                                   IF k = KHidden THEN VFalse ELSE VAbc])],
      [w \in {WsA, WsB} |->
          IF w = WsA
          THEN OneTable("ItemTable", [k \in {SelectedRoot, KHidden, KSecret} |->
                                        IF k = SelectedRoot THEN UrlB ELSE VNum])
          ELSE [t \in {"ItemTable", "cursorTable"} |->
                   IF t = "ItemTable" THEN [k \in {KGit} |-> VTrue] ELSE EmptyMap]],
      [w \in {WsC, <<>>} |->
          [t \in {"ItemTable", "cursorTable"} |-> [k \in {KHidden} |-> VFalse]]] }

\* the states the settings manager hands to importUiState
ImportChoices == { n \in SnapshotChoices : DOMAIN n \subseteq {WsA} }

InitApply ==
    /\ backend \in {"host", "sandbox"}
    /\ storage \in StorageChoices
    /\ config = ConfigOf(<<KHidden, PExt>>)
    /\ cycles = [c \in CycleIds |-> IdleCycle]
    /\ uiStateFile \in {[exists |-> FALSE, data |-> EmptyMap]}
                       \cup {[exists |-> TRUE, data |-> n] : n \in SnapshotChoices}
    /\ backend = "sandbox" => ~uiStateFile.exists
    /\ apply = IdleApply
    /\ passes = [p \in PassIds |-> IdlePass]
    /\ writes = <<>>
    /\ latest = [exists |-> FALSE, data |-> EmptyMap]
    /\ call = NoCall
    /\ manager = NewManager
    /\ sync = IdleSync
    /\ down = IdleDown
    /\ SchedulerIdle

NextApply ==
    \/ \E listed \in BOOLEAN : CallSetUIState(listed)
    \/ \E n \in SnapshotChoices, listed \in BOOLEAN : ReceiveSetUiState(n, listed)
    \/ \E f \in {"ok", "open", "list"} : ApplyOpenDb(f)
    \/ \E markerRead \in BOOLEAN :
          \E f \in TxFailures([k \in {KeyOrder[i] : i \in 1..Len(KeyOrder)} |-> VTrue]) :
             ApplyTable(markerRead, f)
    \/ \E closed \in BOOLEAN : ApplyCloseDb(closed)

SpecApply == InitApply /\ [][NextApply]_vars

(***************************************************************************)
(* Specification of concurrent apply passes on the host                    *)
(***************************************************************************)
InitWriters ==
    /\ backend = "host"
    /\ storage \in [Stores -> {TableA1, TableB}]
    /\ config = ConfigOf(<<KHidden, PExt>>)
    /\ cycles = [c \in CycleIds |-> IdleCycle]
    /\ uiStateFile \in {[exists |-> FALSE, data |-> EmptyMap]}
                       \cup {[exists |-> TRUE, data |-> n] : n \in SnapshotChoices}
    /\ apply = IdleApply
    /\ passes = [p \in PassIds |-> IdlePass]
    /\ writes = <<>>
    /\ latest = [exists |-> FALSE, data |-> EmptyMap]
    /\ call = NoCall
    /\ manager = NewManager
    /\ sync = IdleSync
    /\ down = IdleDown
    /\ SchedulerIdle

NextWriters ==
    \/ \E p \in PassIds : PassCall(p)
    \/ \E p \in PassIds : PassOpenDb(p)
    \/ \E p \in PassIds : PassMarker(p)
    \/ \E p \in PassIds : \E ok \in BOOLEAN : PassBegin(p, ok)
    \/ \E p \in PassIds :
          \E f \in TxFailures([k \in {KeyOrder[i] : i \in 1..Len(KeyOrder)} |-> VTrue]) :
             PassEndTx(p, f)
    \/ \E p \in PassIds : PassCloseDb(p)

SpecWriters == InitWriters /\ [][NextWriters]_vars

(***************************************************************************)
(* Specification of the scheduler                                          *)
(***************************************************************************)
InitSched ==
    /\ backend \in {"host", "sandbox"}
    /\ storage = [s \in Stores |-> IF s[1] = "vscode-web-state-db-ws1" THEN TableA2 ELSE TableA1]
    /\ config = [includeUIState |-> TRUE, uiStateSyncKeys |-> <<KHidden>>,
                 uiStateSyncInterval |-> 10]
    /\ cycles = [c \in CycleIds |-> IdleCycle]
    /\ uiStateFile = [exists |-> FALSE, data |-> EmptyMap]
    /\ apply = IdleApply
    /\ passes = [p \in PassIds |-> IdlePass]
    /\ writes = <<>>
    /\ latest = [exists |-> FALSE, data |-> EmptyMap]
    /\ call = NoCall
    /\ manager = NewManager
    /\ sync = IdleSync
    /\ down = IdleDown
    /\ SchedulerIdle

\* the cycles of the scheduler run without failures
NextSched ==
    \/ Activate
    \/ \E new \in SchedConfigs : HostConfigChange(new)
    \/ \E new \in SchedConfigs : CodeServerConfigChange(new)
    \/ RestartResume
    \/ SandboxReceive
    \/ \E n \in ImportChoices : importUiState(n)
    \/ \E t \in 1..MaxTimers : Tick(t)
    \/ \E c \in CycleIds : CompleteCycle(c)

SpecSched == InitSched /\ [][NextSched]_vars

(***************************************************************************)
(* Specification of the workspace resolver: one call of getWorkspaceName   *)
(***************************************************************************)
InitResolve ==
    /\ backend \in {"host", "sandbox"}
    /\ storage = [s \in Stores |-> EmptyMap]
    /\ config = [includeUIState |-> TRUE, uiStateSyncKeys |-> <<>>, uiStateSyncInterval |-> 10]
    /\ cycles = [c \in 1..MaxCycles |-> IdleCycle]
    /\ uiStateFile = [exists |-> FALSE, data |-> EmptyMap]
    /\ apply = IdleApply
    /\ passes = [p \in PassIds |-> IdlePass]
    /\ writes = <<>>
    /\ latest = [exists |-> FALSE, data |-> EmptyMap]
    /\ call \in {[fn |-> "getWorkspaceName", selectedRoot |-> s, returned |-> FALSE,
                   result |-> Null] : s \in MarkerChoices}
    /\ manager = NewManager
    /\ sync = IdleSync
    /\ down = IdleDown
    /\ SchedulerIdle

NextResolve == CallGetWorkspaceName

SpecResolve == InitResolve /\ [][NextResolve]_vars

(***************************************************************************)
(* Specification of the key filter: one call of isSafeKey                  *)
(***************************************************************************)
InitFilter ==
    /\ backend = "host"
    /\ storage = [s \in Stores |-> EmptyMap]
    /\ config = [includeUIState |-> TRUE, uiStateSyncKeys |-> <<>>, uiStateSyncInterval |-> 10]
    /\ cycles = [c \in 1..MaxCycles |-> IdleCycle]
    /\ uiStateFile = [exists |-> FALSE, data |-> EmptyMap]
    /\ apply = IdleApply
    /\ passes = [p \in PassIds |-> IdlePass]
    /\ writes = <<>>
    /\ latest = [exists |-> FALSE, data |-> EmptyMap]
    /\ call \in {[fn |-> "isSafeKey", key |-> k, safeKeysToSync |-> set, returned |-> FALSE,
                   result |-> FALSE] : k \in KeyChoices, set \in SafeSetChoices}
    /\ manager = NewManager
    /\ sync = IdleSync
    /\ down = IdleDown
    /\ SchedulerIdle

NextFilter == CallIsSafeKey

SpecFilter == InitFilter /\ [][NextFilter]_vars

(***************************************************************************)
(* Specification of the ConfigurationManager                               *)
(***************************************************************************)
InitManager ==
    /\ backend = "host"
    /\ storage = [s \in Stores |-> EmptyMap]
    /\ config = [includeUIState |-> TRUE, uiStateSyncKeys |-> <<>>, uiStateSyncInterval |-> 10]
    /\ cycles = [c \in 1..MaxCycles |-> IdleCycle]
    /\ uiStateFile = [exists |-> FALSE, data |-> EmptyMap]
    /\ apply = IdleApply
    /\ passes = [p \in PassIds |-> IdlePass]
    /\ writes = <<>>
    /\ latest = [exists |-> FALSE, data |-> EmptyMap]
    /\ call = NoCall
    /\ manager = NewManager
    /\ sync = IdleSync
    /\ down = IdleDown
    /\ SchedulerIdle

NextManager ==
    \/ \E key \in ConfigKeys : \E listener \in ListenerIds : addListener(key, listener)
    \/ \E key \in ConfigKeys : \E listener \in ListenerIds : removeListener(key, listener)
    \/ \E affected \in SUBSET ConfigKeys : \E settings \in SettingsChoices :
          updateConfiguration(affected, settings)

SpecManager == InitManager /\ [][NextManager]_vars

(***************************************************************************)
(* Specification of the round trip: one extraction, then passes of apply   *)
(* with the snapshot it produced, on the same storage                      *)
(***************************************************************************)
InitRoundTrip ==
    /\ backend \in {"host", "sandbox"}
    /\ storage \in StorageChoices
    /\ config \in {ConfigOf(k) : k \in SafeKeyChoices}
    /\ cycles = [c \in CycleIds |-> IdleCycle]
    /\ uiStateFile = [exists |-> FALSE, data |-> EmptyMap]
    /\ apply = IdleApply
    /\ passes = [p \in PassIds |-> IdlePass]
    /\ writes = <<>>
    /\ latest = [exists |-> FALSE, data |-> EmptyMap]
    /\ call = NoCall
    /\ manager = NewManager
    /\ sync = IdleSync
    /\ down = IdleDown
    /\ SchedulerIdle

NextRoundTrip ==
    \/ cycles[1].pc = "idle" /\ CallSyncUIState(1)
    \/ CompleteCycle(1)
    \/ \E listed \in BOOLEAN : cycles[1].pc = "done" /\ CallSetUIState(listed)
    \/ \E listed \in BOOLEAN :
          cycles[1].pc = "done" /\ ReceiveSetUiState(cycles[1].exportedData, listed)
    \/ \E f \in {"ok", "open", "list"} : ApplyOpenDb(f)
    \/ \E markerRead \in BOOLEAN :
          \E f \in TxFailures([k \in {KeyOrder[i] : i \in 1..Len(KeyOrder)} |-> VTrue]) :
             ApplyTable(markerRead, f)
    \/ \E closed \in BOOLEAN : ApplyCloseDb(closed)

SpecRoundTrip == InitRoundTrip /\ [][NextRoundTrip]_vars

(***************************************************************************)
(* Specification of the settings managers: one extract() in one state of   *)
(* the file system                                                         *)
(***************************************************************************)
InitHandlers ==
    /\ backend = "host"
    /\ storage = [s \in Stores |-> EmptyMap]
    /\ config = [includeUIState |-> TRUE, uiStateSyncKeys |-> <<>>, uiStateSyncInterval |-> 10]
    /\ cycles = [c \in 1..MaxCycles |-> IdleCycle]
    /\ uiStateFile = [exists |-> FALSE, data |-> EmptyMap]
    /\ apply = IdleApply
    /\ passes = [p \in PassIds |-> IdlePass]
    /\ writes = <<>>
    /\ latest = [exists |-> FALSE, data |-> EmptyMap]
    /\ \E m \in ManagerNames : \E env \in EnvChoices :
          \E withContent \in ContentChoices(m, fileNames(m, env)) :
             call = [fn |-> "extract", manager |-> m, env |-> env,
                     withContent |-> withContent, returned |-> FALSE,
                     produced |-> {}, accepted |-> {}]
    /\ manager = NewManager
    /\ sync = IdleSync
    /\ down = IdleDown
    /\ SchedulerIdle

NextHandlers == CallExtract

SpecHandlers == InitHandlers /\ [][NextHandlers]_vars

(***************************************************************************)
(* Specification of SettingsManagerBase.store under syncDown               *)
(***************************************************************************)
InitStore ==
    /\ backend = "host"
    /\ storage = [s \in Stores |-> EmptyMap]
    /\ config = [includeUIState |-> TRUE, uiStateSyncKeys |-> <<>>, uiStateSyncInterval |-> 10]
    /\ cycles = [c \in 1..MaxCycles |-> IdleCycle]
    /\ uiStateFile = [exists |-> FALSE, data |-> EmptyMap]
    /\ apply = IdleApply
    /\ passes = [p \in PassIds |-> IdlePass]
    /\ writes = <<>>
    /\ latest = [exists |-> FALSE, data |-> EmptyMap]
    /\ call = NoCall
    /\ manager = NewManager
    /\ sync = IdleSync
    /\ down = IdleDown
    /\ SchedulerIdle

NextStore ==
    \/ \E data \in StoreDataChoices : CallStore(data)
    \/ \E f \in StoreFileNames : PathResolves(f)
    \/ StoreResolves
    \/ \E f \in StoreFileNames : \E ok \in BOOLEAN : MkdirSettles(f, ok)
    \/ \E f \in StoreFileNames : \E ok \in BOOLEAN : WriteFileSettles(f, ok)

SpecStore == InitStore /\ [][NextStore]_vars

(***************************************************************************)
(* Specification of syncUp and syncDown of syncManager.ts                  *)
(***************************************************************************)
InitSyncManager ==
    /\ backend = "host"
    /\ storage = [s \in Stores |-> EmptyMap]
    /\ config = [includeUIState |-> TRUE, uiStateSyncKeys |-> <<>>, uiStateSyncInterval |-> 10]
    /\ cycles = [c \in 1..MaxCycles |-> IdleCycle]
    /\ uiStateFile = [exists |-> FALSE, data |-> EmptyMap]
    /\ apply = IdleApply
    /\ passes = [p \in PassIds |-> IdlePass]
    /\ writes = <<>>
    /\ latest = [exists |-> FALSE, data |-> EmptyMap]
    /\ call = NoCall
    /\ manager = NewManager
    /\ sync = IdleSync
    /\ down = IdleDown
    /\ SchedulerIdle

NextSyncManager ==
    \/ \E gistId \in GistIds : \E include \in SUBSET Parts : \E token \in BOOLEAN :
          CallSyncUp(gistId, include, token)
    \/ \E outcome \in CreateOutcomes : CreateGist(outcome)
    \/ \E ok \in BOOLEAN : UploadGist(ok)
    \/ \E gistId \in GistIds : \E include \in SUBSET Parts : \E token \in BOOLEAN :
          CallSyncDown(gistId, include, token)
    \/ \E outcome \in DownloadOutcomes : \E present \in SUBSET Parts :
          DownloadGist(outcome, present)
    \/ \E ok \in BOOLEAN : WritePart(ok)

SpecSyncManager == InitSyncManager /\ [][NextSyncManager]_vars

(***************************************************************************)
(* The persisted fallback uiState.json: the writes of the snapshots,       *)
(* started by syncUIState on the host and by the onDidReceiveMessage       *)
(* handler of code-server, and settled by the file system                  *)
(***************************************************************************)
\* a write of uiState.json that has not started yet (code-server: the
\* message with the snapshot is on its way to the extension host) or is
\* running inside writeFileEnsureDir
StartedWrite(cy, c, bk) ==
    [data |-> cy.exportedData,
     cycle |-> c,
     stage |-> IF bk = "host" THEN "writing" ELSE "posted",
     raced |-> FALSE]

\* a content of the file that is neither of the snapshots written at the
\* same time
TornContent == [w \in {<<"torn">>} |-> EmptyMap]

Writing == {i \in 1..Len(writes) : writes[i].stage = "writing"}

\* the writes after one more entered writeFileEnsureDir: writes that run at
\* the same time are marked
Raced(ws) ==
    LET running == {i \in 1..Len(ws) : ws[i].stage = "writing"}
    IN [i \in 1..Len(ws) |->
           IF i \in running /\ Cardinality(running) > 1
           THEN [ws[i] EXCEPT !.raced = TRUE] ELSE ws[i]]

Without(ws, i) == [j \in 1..(Len(ws) - 1) |-> IF j < i THEN ws[j] ELSE ws[j + 1]]

\* syncUIState from its first await to the merge of the results, without a
\* failure: the host calls writeFileEnsureDir and awaits it, the webview
\* posts the snapshot and the finish message and is done
ExtractionEnds(c) ==
    /\ cycles[c].pc = "listing"
    /\ Len(writes) < MaxWrites
    /\ LET cy == Finished(SettledAll(Listed(cycles[c], backend, config, AllAccessible),
                                     storage, 1), backend, TRUE)
       IN  /\ cycles' = [cycles EXCEPT ![c] =
                  IF backend = "host" THEN [cy EXCEPT !.pc = "writing"] ELSE cy]
           /\ writes' = Raced(Append(writes, StartedWrite(cy, c, backend)))
           /\ latest' = [exists |-> TRUE, data |-> cy.exportedData]
    /\ UNCHANGED <<backend, down, sync, manager, call, storage, config, uiStateFile, apply, passes, sched>>

\* code-server: the onDidReceiveMessage handler takes the oldest
\* gistSettingsSync.syncUiState message with a uiState and starts the write
\* without awaiting it
ReceiveSyncUiState ==
    /\ backend = "sandbox"
    /\ \E i \in 1..Len(writes) :
          /\ writes[i].stage = "posted"
          /\ \A j \in 1..(i - 1) : writes[j].stage # "posted"
          /\ writes' = Raced([writes EXCEPT ![i].stage = "writing"])
    /\ UNCHANGED <<backend, down, sync, manager, call, latest, storage, config, cycles, uiStateFile, apply, passes, sched>>

\* what a write may settle to: the file holds its content, mkdir or
\* writeFile failed and the file is as it was, or (a write that ran at the
\* same time as another one) the file holds a mix of the two contents
WriteOutcomes(w) == {"written", "failed"} \cup (IF w.raced THEN {"torn"} ELSE {})

\* writeFileEnsureDir settles; on the host syncUIState goes on to its end
WriteSettles(i, outcome) ==
    /\ i \in Writing
    /\ outcome \in WriteOutcomes(writes[i])
    /\ uiStateFile' = IF outcome = "written" THEN [exists |-> TRUE, data |-> writes[i].data]
                      ELSE IF outcome = "torn" THEN [exists |-> TRUE, data |-> TornContent]
                      ELSE uiStateFile
    /\ writes' = Without(writes, i)
    /\ cycles' = IF backend = "host"
                 THEN [cycles EXCEPT ![writes[i].cycle] =
                          [@ EXCEPT !.pc = "done",
                                    !.caught = IF outcome = "failed" THEN "write" ELSE "none"]]
                 ELSE cycles
    /\ UNCHANGED <<backend, down, sync, manager, call, latest, storage, config, apply, passes, sched>>

\* VS Code itself writes its state into a table between two extractions
StoreChanges(s, table) ==
    /\ storage[s] # table
    /\ storage' = [storage EXCEPT ![s] = table]
    /\ UNCHANGED <<backend, down, sync, manager, call, writes, latest, config, cycles, uiStateFile, apply, passes, sched>>

InitFile ==
    /\ backend \in {"host", "sandbox"}
    /\ storage \in [Stores -> {TableA1}]
    /\ config = ConfigOf(<<KHidden, PStar>>)
    /\ cycles = [c \in CycleIds |-> IdleCycle]
    /\ uiStateFile = [exists |-> FALSE, data |-> EmptyMap]
    /\ apply = IdleApply
    /\ passes = [p \in PassIds |-> IdlePass]
    /\ writes = <<>>
    /\ latest = [exists |-> FALSE, data |-> EmptyMap]
    /\ call = NoCall
    /\ manager = NewManager
    /\ sync = IdleSync
    /\ down = IdleDown
    /\ SchedulerIdle

NextFile ==
    \/ \E c \in CycleIds : CallSyncUIState(c)
    \/ \E c \in CycleIds : ExtractionEnds(c)
    \/ ReceiveSyncUiState
    \/ \E i \in 1..MaxWrites : \E outcome \in {"written", "failed", "torn"} : WriteSettles(i, outcome)
    \/ \E table \in {TableA1, TableA2, TableB} :
          StoreChanges(<<"vscode-web-state-db-global", "ItemTable">>, table)

SpecFile == InitFile /\ [][NextFile]_vars

(***************************************************************************)
(* Claims on the extraction pipeline                                       *)
(***************************************************************************)
Done(c) == cycles[c].pc = "done"

\* the (workspace, store) entries of a snapshot
EntriesOf(snapshot) == UNION {{<<w, t>> : t \in DOMAIN snapshot[w]} : w \in DOMAIN snapshot}

\* the marker value of a store resolves to a usable WorkspaceName
Attributable(table) ==
    /\ SelectedRoot \in DOMAIN table
    /\ table[SelectedRoot].type = "string"
    /\ ~Falsy(getWorkspaceName(table[SelectedRoot].text))

WorkspaceOf(table) == getWorkspaceName(table[SelectedRoot].text).name

\* C1: every key of every per-store map of a snapshot produced by an extraction
\* cycle is the root-marker key or is matched, exactly or by wildcard, by the
\* SafeKeySet of that cycle
C1_SnapshotKeysSafe ==
    \A c \in CycleIds : Done(c) =>
        \A e \in EntriesOf(cycles[c].exportedData) :
            \A k \in DOMAIN cycles[c].exportedData[e[1]][e[2]] :
                k = SelectedRoot \/ isSafeKey(k, cycles[c].safeKeysToSync)

\* a finished cycle exported a safe key of a store that also holds an unsafe one
C1_Witness ==
    \E c \in CycleIds : Done(c) /\
        \E s \in DOMAIN storage :
            /\ cycles[c].status[s[1]] = "ok"
            /\ Attributable(storage[s])
            /\ \E k \in DOMAIN storage[s] :
                  k # SelectedRoot /\ k # EmptyKey /\ ~isSafeKey(k, cycles[c].safeKeysToSync)
            /\ <<WorkspaceOf(storage[s]), s[2]>> \in EntriesOf(cycles[c].exportedData)
            /\ \E k \in DOMAIN cycles[c].exportedData[WorkspaceOf(storage[s])][s[2]] :
                  k # SelectedRoot

Clean(c, db) == cycles[c].status[db] = "ok"

PositionOf(seq, x) == CHOOSE i \in 1..Len(seq) : seq[i] = x

\* C9: whenever reading store A failed and reading store B succeeded, in the
\* same database or in another, B's (workspace, store) entry is in the
\* snapshot
C9_StoreIsolation ==
    \A c \in CycleIds : Done(c) =>
        \A a \in cycles[c].readFail : \A b \in cycles[c].readOk :
            Attributable(storage[b]) =>
                <<WorkspaceOf(storage[b]), b[2]>> \in EntriesOf(cycles[c].exportedData)

\* the isolation the code provides is per database.  The extraction never lands
\* in the outer catch because of a failed database; every attributable store
\* of a database extracted without failure is in the snapshot (with its own
\* filtered records unless a later database supplies the same pair); and
\* every entry of the snapshot is the filtered records of a store of a
\* database extracted without failure, so a database with a failed read,
\* open or close contributes nothing
DatabaseIsolation ==
    \A c \in CycleIds : Done(c) =>
        LET exp == cycles[c].exportedData
            keys == cycles[c].safeKeysToSync
        IN  /\ cycles[c].caught # "extract"
            /\ \A b \in DOMAIN storage :
                  Clean(c, b[1]) /\ Attributable(storage[b]) =>
                      /\ <<WorkspaceOf(storage[b]), b[2]>> \in EntriesOf(exp)
                      /\ \/ exp[WorkspaceOf(storage[b])][b[2]] = SafeDataOf(storage[b], keys)
                         \/ \E s \in DOMAIN storage :
                               /\ Clean(c, s[1]) /\ s[2] = b[2]
                               /\ PositionOf(cycles[c].dbs, s[1]) > PositionOf(cycles[c].dbs, b[1])
                               /\ Attributable(storage[s])
                               /\ WorkspaceOf(storage[s]) = WorkspaceOf(storage[b])
            /\ \A e \in EntriesOf(exp) :
                  \E s \in DOMAIN storage :
                      /\ Clean(c, s[1]) /\ s[2] = e[2]
                      /\ Attributable(storage[s])
                      /\ WorkspaceOf(storage[s]) = e[1]
                      /\ exp[e[1]][e[2]] = SafeDataOf(storage[s], keys)

\* a finished cycle in which the read of a store failed, a store of the same
\* database had been read, and a store of another database is in the snapshot
DatabaseIsolationReached ==
    \E c \in CycleIds : Done(c) /\
        \E a \in cycles[c].readFail : \E b \in cycles[c].readOk : \E s \in DOMAIN storage :
            /\ a[1] = b[1]
            /\ Attributable(storage[a]) /\ Attributable(storage[b])
            /\ s[1] # a[1] /\ Clean(c, s[1]) /\ Attributable(storage[s])
            /\ <<WorkspaceOf(storage[s]), s[2]>> \in EntriesOf(cycles[c].exportedData)

\* C12: on the host, when the root can be listed, every database file that
\* can be accessed is enumerated by the cycle, whatever happens to the others
C12_EnumerationContinues ==
    \A c \in CycleIds :
        Done(c) /\ backend = "host" /\ cycles[c].access.root =>
            \A d \in DbSet : cycles[c].access.file[d] = "ok" => Includes(cycles[c].dbs, d)

\* C13: the root-marker key is not a key of any per-store map of a snapshot
C13_MarkerExcluded ==
    \A c \in CycleIds : Done(c) =>
        \A e \in EntriesOf(cycles[c].exportedData) :
            SelectedRoot \notin DOMAIN cycles[c].exportedData[e[1]][e[2]]

\* C16: a cycle of the sandbox posts syncUiStateStart first, then one
\* syncUiState message with either the snapshot or an error, then
\* syncUiStateFinish, and nothing else
C16_CycleMessages ==
    \A c \in CycleIds : backend = "sandbox" =>
        LET p == cycles[c].posted
        IN  /\ cycles[c].pc = "idle" => p = <<>>
            /\ cycles[c].pc \in {"listing", "extracting"} => p = <<"syncUiStateStart">>
            /\ Done(c) =>
                  p \in {<<"syncUiStateStart", "syncUiState:uiState", "syncUiStateFinish">>,
                         <<"syncUiStateStart", "syncUiState:error", "syncUiStateFinish">>}

\* a finished cycle of the sandbox in which a database could not be extracted
C16_Witness ==
    \E c \in CycleIds :
        /\ backend = "sandbox" /\ Done(c)
        /\ \E d \in DbSet : cycles[c].status[d] = "failed"
        /\ Len(cycles[c].posted) = 3

\* two stores of databases extracted without failure resolve to the same
\* (WorkspaceName, store name)
SamePair(c, b, s) ==
    /\ b # s /\ b[2] = s[2]
    /\ Clean(c, b[1]) /\ Clean(c, s[1])
    /\ Attributable(storage[b]) /\ Attributable(storage[s])
    /\ WorkspaceOf(storage[b]) = WorkspaceOf(storage[s])

Later(c, b, s) == PositionOf(cycles[c].dbs, s[1]) > PositionOf(cycles[c].dbs, b[1])

\* C18: when two stores resolve to the same (WorkspaceName, store name), the
\* entry of the snapshot is exactly the filtered records of the one that is
\* last in enumeration order, whatever the order in which the reads completed
C18_LaterStoreWins ==
    \A c \in CycleIds : Done(c) =>
        \A b \in DOMAIN storage : \A s \in DOMAIN storage :
            /\ SamePair(c, b, s) /\ Later(c, b, s)
            /\ \A t \in DOMAIN storage : SamePair(c, s, t) => ~Later(c, s, t)
            => cycles[c].exportedData[WorkspaceOf(storage[s])][s[2]]
                   = SafeDataOf(storage[s], cycles[c].safeKeysToSync)

\* a finished cycle in which the later store settled first and the earlier
\* store holds a safe key the later one lacks
C18_Witness ==
    \E c \in CycleIds : Done(c) /\
        \E b \in DOMAIN storage : \E s \in DOMAIN storage :
            /\ SamePair(c, b, s) /\ Later(c, b, s)
            /\ cycles[c].completed = <<s[1], b[1]>>
            /\ \E k \in DOMAIN SafeDataOf(storage[b], cycles[c].safeKeysToSync) :
                  k \notin DOMAIN storage[s]

\* the two executions met the same outcomes of their storage calls
SameOutcomes(c, d) ==
    /\ cycles[c].safeKeysToSync = cycles[d].safeKeysToSync
    /\ cycles[c].dbs = cycles[d].dbs
    /\ cycles[c].status = cycles[d].status

SourcesOf(c, e) ==
    {s \in DOMAIN storage :
        /\ cycles[c].status[s[1]] = "ok"
        /\ s[2] = e[2]
        /\ SelectedRoot \in DOMAIN storage[s]
        /\ storage[s][SelectedRoot].type = "string"
        /\ getWorkspaceName(storage[s][SelectedRoot].text) = Name(e[1])}

\* C24: every entry of a snapshot comes from a store whose marker is a string
\* resolving to a non-empty name, and no snapshot has the empty (or null)
\* name as a top-level key; stores without such a marker are passed over
\* without failing their database
C24_OnlyMarkedStores ==
    \A c \in CycleIds : Done(c) =>
        /\ <<>> \notin DOMAIN cycles[c].exportedData
        /\ \A e \in EntriesOf(cycles[c].exportedData) : e[1] # <<>> /\ SourcesOf(c, e) # {}

\* a database was extracted in which one store has a marker that is missing,
\* not a string or resolving to nothing or to the empty name, and another
\* store has a good one: only the second is in the snapshot
C24_Witness ==
    \E c \in CycleIds : Done(c) /\
        \E s \in DOMAIN storage : \E r \in DOMAIN storage :
            /\ s[1] = r[1] /\ cycles[c].status[s[1]] = "ok"
            /\ storage[s] \in {TableRoot, TableNoMarker, TableNumMarker, TableNotUrl, TableNoCtl}
            /\ Attributable(storage[r])
            /\ <<WorkspaceOf(storage[r]), r[2]>> \in EntriesOf(cycles[c].exportedData)
            /\ \A e \in EntriesOf(cycles[c].exportedData) : e[2] # s[2]

(***************************************************************************)
(* Claims on the apply pipeline                                            *)
(***************************************************************************)
\* the store was, when the pass began, filed under a workspace for which the
\* incoming snapshot has an entry with the name of the store
Matched(s) ==
    /\ Attributable(apply.pre[s])
    /\ <<WorkspaceOf(apply.pre[s]), s[2]>> \in EntriesOf(apply.newState)

\* the incoming per-store map of a store
IncomingMap(s) ==
    IF Matched(s) THEN apply.newState[WorkspaceOf(apply.pre[s])][s[2]] ELSE EmptyMap

\* a table after every incoming key was upserted
Upserted(table, data) ==
    [k \in DOMAIN table \cup DOMAIN data |-> IF k \in DOMAIN data THEN data[k] ELSE table[k]]

\* C2: merge, not replace: after apply every key that was in a local store
\* and is absent from the incoming per-store map is still in that store with
\* the value it had before the apply
C2_MergeNotReplace ==
    apply.pc = "done" =>
        \A s \in DOMAIN apply.pre :
            \A k \in DOMAIN apply.pre[s] \ DOMAIN IncomingMap(s) :
                /\ s \in DOMAIN storage
                /\ k \in DOMAIN storage[s]
                /\ storage[s][k] = apply.pre[s][k]

\* a finished pass changed a store that holds a key absent from the incoming map
C2_Witness ==
    /\ apply.pc = "done"
    /\ \E s \in DOMAIN apply.pre :
          /\ storage[s] # apply.pre[s]
          /\ \E k \in DOMAIN apply.pre[s] : k # SelectedRoot /\ k \notin DOMAIN IncomingMap(s)

\* C3: apply changes a store only if the store exists and its marker resolves
\* to a workspace for which the incoming snapshot has an entry with the name
\* of the store; every other store is unchanged and no store is created
C3_OnlyMatchedStores ==
    apply.pc # "idle" =>
        /\ DOMAIN storage = DOMAIN apply.pre
        /\ \A s \in DOMAIN apply.pre : storage[s] # apply.pre[s] => Matched(s)

\* a finished pass changed one store and passed over another whose name is in
\* the incoming snapshot under a workspace the store does not resolve to
C3_Witness ==
    /\ apply.pc = "done"
    /\ \E s \in DOMAIN apply.pre : \E s2 \in apply.visited :
          /\ storage[s] # apply.pre[s]
          /\ ~Matched(s2)
          /\ \E w \in DOMAIN apply.newState : s2[2] \in DOMAIN apply.newState[w]
          /\ storage[s2] = apply.pre[s2]

StorePosition(s) == 10 * PositionOf(apply.dbs, s[1]) + PositionOf(TableOrder, s[2])

\* C10: a table whose transaction failed ends with exactly the contents it
\* had before the apply, and the pass goes on: unless the pass is rejected for
\* another reason, every later table of a database that opened is visited,
\* and upserted in full when it is matched and its own transaction succeeds
C10_TableRollback ==
    apply.pc = "done" =>
        /\ \A s \in apply.failedTx : storage[s] = apply.pre[s]
        /\ apply.threw = "none" =>
              \A s \in apply.failedTx : \A s2 \in DOMAIN apply.pre :
                  /\ Includes(apply.dbs, s2[1])
                  /\ s2[1] \notin apply.openFailed
                  /\ StorePosition(s2) > StorePosition(s)
                  => /\ s2 \in apply.visited
                     /\ Matched(s2) /\ s2 \notin apply.failedTx \cup apply.markerFailed
                        => storage[s2] = Upserted(apply.pre[s2], IncomingMap(s2))

\* a finished pass in which a transaction failed after a write and a later
\* table was changed
C10_Witness ==
    /\ apply.pc = "done"
    /\ \E s \in apply.partialTx : \E s2 \in DOMAIN apply.pre :
          /\ Includes(apply.dbs, s2[1])
          /\ StorePosition(s2) > StorePosition(s)
          /\ storage[s2] # apply.pre[s2]

\* C11: an apply pass never rejects because a database could not be opened,
\* its tables could not be listed or a marker could not be read
C11_ApplyErrorsIsolated ==
    apply.pc = "done" => apply.threw \notin {"open", "list", "marker"}

\* C15: a finished apply pass of the sandbox posted exactly one
\* setUiStateStart followed by exactly one setUiStateFinish
C15_ApplyMessages ==
    backend = "sandbox" /\ apply.pc = "done" =>
        apply.posted \in {<<"setUiStateStart", "setUiStateFinish">>,
                          <<"setUiStateStart", "setUiStateFinish:error">>}

\* the pass met no failure: every database was enumerated and opened, every
\* marker was read, every transaction committed
PassWithoutFailure ==
    /\ apply.threw = "none"
    /\ apply.dbs = DbNames
    /\ apply.failedTx = {} /\ apply.markerFailed = {} /\ apply.openFailed = {}

\* C19: after an apply pass without failures every matched store holds every
\* incoming key with the incoming value, and no key it held is gone
C19_Upsert ==
    apply.pc = "done" /\ PassWithoutFailure =>
        \A s \in DOMAIN apply.pre : Matched(s) =>
            /\ \A k \in DOMAIN IncomingMap(s) :
                  k \in DOMAIN storage[s] /\ storage[s][k] = IncomingMap(s)[k]
            /\ DOMAIN apply.pre[s] \subseteq DOMAIN storage[s]

\* a pass without failures inserted one key into a matched store and
\* changed the value of another
C19_Witness ==
    /\ apply.pc = "done" /\ PassWithoutFailure
    /\ \E s \in DOMAIN apply.pre :
          /\ Matched(s)
          /\ \E k \in DOMAIN IncomingMap(s) : k \notin DOMAIN apply.pre[s]
          /\ \E k \in DOMAIN IncomingMap(s) :
                k \in DOMAIN apply.pre[s] /\ apply.pre[s][k] # IncomingMap(s)[k]

\* C20: at any time at most one execution of setUIState holds a transaction
\* open on any one database file
C20_WritersSerialized ==
    \A p \in PassIds : \A q \in PassIds :
        p # q /\ passes[p].tx /\ passes[q].tx => passes[p].db # passes[q].db

(***************************************************************************)
(* Claims on the scheduler                                                 *)
(***************************************************************************)
\* a step in which syncUIState is entered
CycleBegins ==
    \E c \in CycleIds : cycles[c].pc # "listing" /\ cycles'[c].pc = "listing"

\* a step in which setInterval is called
TimerCreated == nextTimer' > nextTimer

\* C4: extraction cycles of one adapter instance never overlap: at most one
\* extraction cycle is in flight at any time
C4_NoOverlap == Cardinality(InFlight) <= 1

\* C5: after two starts in succession without a stop between them exactly
\* one periodic timer is active
C5_StartTwiceOneTimer == startsInARow >= 2 => Cardinality(ActiveTimers) = 1

\* C6: whatever settings changes happened and however their restarts and
\* messages interleaved, at most one timer is active and no timer other than
\* the one of the latest start survives
C6_AtomicRestart ==
    /\ Cardinality(ActiveTimers) <= 1
    /\ ActiveTimers \subseteq {syncTimer}

\* C7: while the last scheduler operation processed is a stop, no extraction
\* cycle begins
C7_NoCycleAfterStop ==
    [][lastCmd = "stop" /\ lastCmd' = "stop" => ~CycleBegins]_vars

\* C8: every start, on either adapter, begins an extraction cycle in the
\* step that creates the timer, before any interval has elapsed
C8_ImmediateCycle == [][TimerCreated => CycleBegins]_vars

\* a step in which the webview's listener takes a gistSettingsSync.importUiState
\* message off the channel
ImportReceived ==
    /\ backend = "sandbox" /\ panel /\ panel'
    /\ chan # <<>>
    /\ Head(chan).command = "gistSettingsSync.importUiState"
    /\ chan' = Tail(chan)

\* C14: when the webview receives the message importUiState posted, an apply
\* pass for the state it carries begins
C14_ImportRunsApply ==
    [][ImportReceived => apply'.pc = "running" /\ apply'.newState = Head(chan).uiState]_vars

\* a step that processes a stop or a change of the settings: the configuration
\* listener ran, or the webview's listener took a gistSettingsSync.stopSyncUiState
\* message
StopOrChange ==
    \/ config' # config
    \/ /\ backend = "sandbox" /\ panel /\ panel'
       /\ chan # <<>>
       /\ Head(chan).command = "gistSettingsSync.stopSyncUiState"
       /\ chan' = Tail(chan)

\* C21: a stop or a change of the settings leaves every execution of
\* syncUIState and of setUIState that is in flight as it is, to run to its end
C21_InFlightSurvives ==
    [][StopOrChange =>
          /\ \A c \in CycleIds : ~Free(c) => cycles'[c] = cycles[c]
          /\ apply.pc = "running" => apply' = apply]_vars

\* the same for every stop and every change of the settings that does not
\* dispose the webview panel
InFlightSurvivesWithoutDispose ==
    [][StopOrChange /\ (panel => panel') =>
          /\ \A c \in CycleIds : ~Free(c) => cycles'[c] = cycles[c]
          /\ apply.pc = "running" => apply' = apply]_vars

(***************************************************************************)
(* Claims on the persisted fallback                                        *)
(***************************************************************************)
\* no execution of syncUIState and no write of uiState.json is in flight
Quiet == writes = <<>> /\ \A c \in CycleIds : Free(c)

\* C22: whenever no extraction and no write is in flight, uiState.json holds
\* the snapshot of the last extraction that ended with one
C22_FileHoldsLatest ==
    Quiet /\ latest.exists => uiStateFile = latest

(***************************************************************************)
(* Claims on the webview                                                   *)
(***************************************************************************)
\* a step in which the webview's listener takes a message with this command
Received(command) ==
    /\ backend = "sandbox" /\ panel /\ panel'
    /\ chan # <<>>
    /\ Head(chan).command = command
    /\ chan' = Tail(chan)

\* a step in which the callback of an active timer enters syncUIState with
\* the keys the timer was created with
TickBegins ==
    /\ timers' = timers /\ chan' = chan
    /\ \E t \in ActiveTimers : \E c \in CycleIds :
          /\ cycles[c].pc # "listing" /\ cycles'[c].pc = "listing"
          /\ cycles'[c].safeKeysToSync = timers[t].safeKeysToSync

\* C23: the webview is idle and silent until it has received a start; it
\* enters syncUIState only on a start message or on a tick of a timer, a
\* timer is created only on a start message, and setUIState is entered only
\* on a setUiState message
C23_SandboxOnlyReacts ==
    /\ [](backend = "sandbox" /\ nextTimer = 1 => \A c \in CycleIds : cycles[c] = IdleCycle)
    /\ [][backend = "sandbox" =>
            /\ CycleBegins => Received("gistSettingsSync.syncUiState") \/ TickBegins
            /\ TimerCreated => Received("gistSettingsSync.syncUiState")
            /\ (apply.pc # "running" /\ apply'.pc = "running") =>
                   Received("gistSettingsSync.setUiState")]_vars

\* the webview runs an extraction that a tick started
C23_Witness ==
    /\ backend = "sandbox"
    /\ \E c \in CycleIds : cycles[c].origin = "tick" /\ cycles[c].pc = "done"
    /\ \E c \in CycleIds : cycles[c].origin = "start"

(***************************************************************************)
(* Claims on the workspace resolver                                        *)
(***************************************************************************)
Resolved == call.fn = "getWorkspaceName" /\ call.returned

\* the marker is a file URL; what follows the scheme is its path
HasScheme(s) == s # <<>> /\ Head(s) = "file://"

\* position i of the path p holds the whole segment .vscode
CtlAt(p, i) ==
    /\ p[i] = ".vscode"
    /\ i = 1 \/ p[i - 1] = "/"
    /\ i = Len(p) \/ p[i + 1] = "/"

HasCtl(p) == \E i \in 1..Len(p) : CtlAt(p, i)

FirstCtl(p) == CHOOSE i \in 1..Len(p) : CtlAt(p, i) /\ \A j \in 1..(i - 1) : ~CtlAt(p, j)

\* the separator that opens the segment before the one at position i
OpenerBefore(p, i) ==
    CHOOSE k \in 1..(i - 2) : p[k] = "/" /\ \A j \in (k + 1)..(i - 2) : p[j] # "/"

\* the segment before the one at position i > 2
SegmentBefore(p, i) == SubSeq(p, OpenerBefore(p, i) + 1, i - 2)

\* C25: for a URL whose path has the segment .vscode after another segment,
\* the result is that other segment (proj1 in the example); for a URL
\* without a .vscode segment and for a string that is not a URL, it is null
C25_Resolve ==
    Resolved =>
        LET s == call.selectedRoot
            p == Tail(s)
        IN  /\ ~HasScheme(s) => call.result = Null
            /\ HasScheme(s) /\ ~HasCtl(p) => call.result = Null
            /\ HasScheme(s) /\ HasCtl(p) /\ FirstCtl(p) > 2 =>
                   call.result = Name(SegmentBefore(p, FirstCtl(p)))
            /\ s = UrlExample.text => call.result = Name(<<"proj1">>)
            /\ s \in {UrlNoCtl.text, NotUrl.text} => call.result = Null

\* the three examples were resolved, and a URL with two segments before
\* .vscode
C25_Witness ==
    /\ Resolved
    /\ \/ call.selectedRoot = UrlExample.text /\ call.result = Name(<<"proj1">>)
       \/ call.selectedRoot = <<"file://", "/", "x", "/", ".vscode">> /\ call.result = Name(<<"x">>)

\* C26: for a URL whose path starts with the segment .vscode the result is
\* null
C26_FirstComponentNull ==
    Resolved /\ HasScheme(call.selectedRoot) /\ Len(call.selectedRoot) >= 3
             /\ CtlAt(Tail(call.selectedRoot), 2) =>
        call.result = Null

(***************************************************************************)
(* Claims on the key filter                                                *)
(***************************************************************************)
Filtered == call.fn = "isSafeKey" /\ call.returned

HasStar(pattern) == \E i \in 1..Len(pattern) : pattern[i] = "*"

\* C27: with patterns that hold no "*", the key is safe exactly when it is
\* one of the patterns, character by character and in the same case
C27_LiteralExact ==
    Filtered /\ (\A i \in 1..Len(call.safeKeysToSync) : ~HasStar(call.safeKeysToSync[i])) =>
        (call.result <=> \E i \in 1..Len(call.safeKeysToSync) : call.safeKeysToSync[i] = call.key)

\* a key was found safe by a literal pattern, and a key differing from the
\* pattern in case only would not be
C27_Witness ==
    /\ Filtered
    /\ call.safeKeysToSync = <<<<"a", ".", "A">>, <<"a">>>>
    /\ call.key = <<"a", ".", "A">>
    /\ call.result

\* the pieces of a pattern between its "*"
RECURSIVE ChunksOf(_, _, _)
ChunksOf(pattern, i, cur) ==
    IF i > Len(pattern) THEN <<cur>>
    ELSE IF pattern[i] = "*" THEN <<cur>> \o ChunksOf(pattern, i + 1, <<>>)
         ELSE ChunksOf(pattern, i + 1, Append(cur, pattern[i]))

\* where piece i starts in the key when the runs taken by the "*" before it
\* have the lengths g
RECURSIVE OffsetOf(_, _, _)
OffsetOf(chunks, g, i) ==
    IF i = 1 THEN 0 ELSE OffsetOf(chunks, g, i - 1) + Len(chunks[i - 1]) + g[i - 1]

\* the whole key is the pattern with each "*" replaced by a run of characters
\* without "."
Matches(pattern, key) ==
    LET chunks == ChunksOf(pattern, 1, <<>>)
        r == Len(chunks) - 1
    IN  \E g \in [1..r -> 0..Len(key)] :
            /\ OffsetOf(chunks, g, r + 1) + Len(chunks[r + 1]) = Len(key)
            /\ \A i \in 1..(r + 1) : \A t \in 1..Len(chunks[i]) :
                   key[OffsetOf(chunks, g, i) + t] = chunks[i][t]
            /\ \A i \in 1..r : \A t \in 1..g[i] :
                   key[OffsetOf(chunks, g, i) + Len(chunks[i]) + t] # "."

\* C28: with a pattern that holds "*" among the patterns, the key is safe
\* exactly when the whole key is one of the patterns with each "*" replaced
\* by a run of characters without "." (or equals a pattern without "*");
\* workbench.view.extension.*.state accepts workbench.view.extension.git.state
\* and rejects workbench.view.extension.git.sub.state
C28_WildcardWholeKey ==
    Filtered /\ (\E i \in 1..Len(call.safeKeysToSync) : HasStar(call.safeKeysToSync[i])) =>
        /\ call.result <=>
               \E i \in 1..Len(call.safeKeysToSync) :
                   IF HasStar(call.safeKeysToSync[i])
                   THEN Matches(call.safeKeysToSync[i], call.key)
                   ELSE call.safeKeysToSync[i] = call.key
        /\ call.safeKeysToSync = <<PExt>> /\ call.key = KGit => call.result
        /\ call.safeKeysToSync = <<PExt>> /\ call.key = KGitSub => ~call.result

\* the example pattern rejected the key with one segment too many
C28_Witness ==
    Filtered /\ call.safeKeysToSync = <<PExt>> /\ call.key = KGitSub /\ ~call.result

(***************************************************************************)
(* Claims on code-server                                                   *)
(***************************************************************************)
\* a start is on its way to the webview: the message is posted, or a
\* restartUiSync is about to post it
StartOnItsWay ==
    \/ \E i \in 1..Len(chan) : chan[i].command = "gistSettingsSync.syncUiState"
    \/ restarts > 0 /\ panel

\* C29: on code-server, while includeUIState is enabled after activation, the
\* webview runs a timer or a start is on its way to it
C29_EnabledMeansRunning ==
    backend = "sandbox" /\ activated /\ config.includeUIState =>
        ActiveTimers # {} \/ StartOnItsWay

\* code-server with includeUIState enabled and neither a timer nor a start
\* on its way
Dormant ==
    /\ backend = "sandbox" /\ activated /\ config.includeUIState
    /\ ActiveTimers = {} /\ ~StartOnItsWay

\* without a change of the configuration a dormant webview stays dormant and
\* begins no extraction
DormantStays == [][Dormant /\ config' = config => Dormant' /\ ~CycleBegins]_vars

(***************************************************************************)
(* Claims on the ConfigurationManager                                      *)
(***************************************************************************)
\* the calls of the last event made to this listener for this key
CallsTo(listener, key) ==
    {i \in 1..Len(manager.calls) :
        manager.calls[i].listener = listener /\ manager.calls[i].key = key}

\* the places at which the listener is registered for the key
Registrations(listener, key) ==
    {i \in 1..Len(manager.listeners[key]) : manager.listeners[key][i] = listener}

C31_RemovedNotCalled ==
    \A pair \in manager.removed :
        /\ Registrations(pair[2], pair[1]) = {}
        /\ CallsTo(pair[2], pair[1]) = {}

\* l1 was removed for includeUIState; a later event affected that key and
\* called l2, which is registered for it, and not l1
C31_Witness ==
    /\ <<"includeUIState", "l1">> \in manager.removed
    /\ "includeUIState" \in manager.affected
    /\ CallsTo("l2", "includeUIState") # {}
    /\ CallsTo("l1", "includeUIState") = {}

(***************************************************************************)
(* Claims on syncUp and syncDown of syncManager.ts                         *)
(***************************************************************************)
\* C32: a syncUp that was called with a token at hand while config.gistId
\* is '' creates no gist and uploads nothing, and it ends by throwing the
\* error 'Gist ID is not configured.'
C32_SyncUpNeedsGistId ==
    sync.fn = "syncUp" /\ sync.token /\ sync.configured = "" =>
        /\ ~sync.created
        /\ ~sync.uploaded
        /\ SyncSettled => sync.pc = "failed" /\ sync.error = "Gist ID is not configured."

\* C33: a syncDown that was called with a token at hand while config.gistId
\* is '' attempts no download and writes no file, and it ends by throwing
\* the error 'Gist ID is not configured.'
C33_SyncDownNeedsGistId ==
    sync.fn = "syncDown" /\ sync.token /\ sync.configured = "" =>
        /\ sync.downloads = 0
        /\ sync.written = <<>>
        /\ SyncSettled => sync.pc = "failed" /\ sync.error = "Gist ID is not configured."

\* what holds of C33: without a gist id syncDown throws before it downloads
\* or writes anything
SyncDownStopsBeforeDownload ==
    sync.fn = "syncDown" /\ sync.configured = "" =>
        sync.pc = "failed" /\ sync.downloads = 0 /\ sync.written = <<>>

(***************************************************************************)
(* Claims on what apply does to the attribution and on repeating it        *)
(***************************************************************************)
\* what the marker record of a store resolves to: null without a marker
\* that is a string
NameResolved(table) ==
    IF SelectedRoot \in DOMAIN table /\ table[SelectedRoot].type = "string"
    THEN getWorkspaceName(table[SelectedRoot].text)
    ELSE Null

\* the per-store maps of the snapshot that carry the marker key carry it
\* with a value that resolves to the workspace they are filed under
MarkersAgree(newState) ==
    \A w \in DOMAIN newState : \A t \in DOMAIN newState[w] :
        SelectedRoot \in DOMAIN newState[w][t] =>
            NameResolved(newState[w][t]) = Name(w)

\* C34: apply never changes the WorkspaceName a store resolves to: at every
\* point of an apply pass, every store resolves to the name it resolved to
\* when the pass began
C34_ApplyKeepsWorkspace ==
    apply.pc # "idle" =>
        \A s \in DOMAIN apply.pre :
            /\ s \in DOMAIN storage
            /\ NameResolved(storage[s]) = NameResolved(apply.pre[s])

\* what holds of C34: the name is kept by every snapshot whose marker
\* values agree with the workspaces they are filed under
WorkspaceKeptWhenMarkersAgree ==
    apply.pc # "idle" /\ MarkersAgree(apply.newState) =>
        \A s \in DOMAIN apply.pre :
            /\ s \in DOMAIN storage
            /\ NameResolved(storage[s]) = NameResolved(apply.pre[s])

\* C35: apply is idempotent: a pass that applied the snapshot the pass
\* before it applied, both without a failure and with nothing else changing
\* the stores in between, leaves every store as the first pass left it
C35_ApplyIdempotent ==
    apply.pc = "done" /\ apply.again /\ CleanPass(apply) => storage = apply.pre

\* what holds of C35: applying a snapshot twice changes nothing the second
\* time when its marker values agree with the workspaces they are filed under
IdempotentWhenMarkersAgree ==
    apply.pc = "done" /\ apply.again /\ CleanPass(apply) /\ MarkersAgree(apply.newState) =>
        storage = apply.pre

\* no two stores resolve to the same (WorkspaceName, store name)
UniquePairs(st) ==
    \A s1, s2 \in DOMAIN st :
        /\ s1 # s2
        /\ Attributable(st[s1])
        /\ Attributable(st[s2])
        => <<WorkspaceOf(st[s1]), s1[2]>> # <<WorkspaceOf(st[s2]), s2[2]>>

\* C36: round trip: when no two stores resolve to the same (WorkspaceName,
\* store name), a pass of apply with the snapshot that was just extracted
\* from the storage leaves every store as it was, at every point of the pass
C36_RoundTrip ==
    /\ cycles[1].pc = "done"
    /\ apply.pc # "idle"
    /\ apply.newState = cycles[1].exportedData
    /\ UniquePairs(apply.pre)
    => storage = apply.pre

\* a pass ended that wrote, without a failure, an extracted entry holding
\* more than the marker into the store it came from
C36_Witness ==
    /\ cycles[1].pc = "done"
    /\ apply.pc = "done"
    /\ apply.newState = cycles[1].exportedData
    /\ UniquePairs(apply.pre)
    /\ CleanPass(apply)
    /\ \E s \in apply.visited :
          /\ Matched(s)
          /\ DOMAIN IncomingMap(s) \ {SelectedRoot} # {}
          /\ IncomingMap(s) # apply.pre[s]

(***************************************************************************)
(* Claims on the host scheduler while UI state is excluded                 *)
(***************************************************************************)
\* C37: on the host, while includeUIState is disabled no extraction timer
\* is active: disabling clears the timer, and a later change of
\* uiStateSyncKeys or uiStateSyncInterval starts none
C37_NoTimerWhileDisabled ==
    backend = "host" /\ ~config.includeUIState => ActiveTimers = {}

\* what holds of C37: the change that disables includeUIState, and changes
\* nothing else, leaves the handle syncTimer null
DisablingClearsHandle ==
    [][backend = "host" /\ config.includeUIState /\ ~config'.includeUIState
       /\ config'.uiStateSyncKeys = config.uiStateSyncKeys
       /\ config'.uiStateSyncInterval = config.uiStateSyncInterval
       => syncTimer' = 0]_vars

(***************************************************************************)
(* Claims on database connections                                          *)
(***************************************************************************)
\* C38: every connection an extraction cycle or an apply pass opened is
\* closed when the cycle or pass has finished, also when a read or a write
\* failed (a connection whose close() itself threw is left aside)
C38_ConnectionsClosed ==
    /\ \A c \in CycleIds : Done(c) => cycles[c].open \ cycles[c].closeFailed = {}
    /\ apply.pc = "done" /\ apply.threw # "close" => apply.open = {}

\* what holds of C38: on the host every connection is closed when the cycle
\* or pass has finished, unless close() itself threw
HostConnectionsClosed ==
    backend = "host" =>
        /\ \A c \in CycleIds : Done(c) => cycles[c].open \ cycles[c].closeFailed = {}
        /\ apply.pc = "done" /\ apply.threw # "close" => apply.open = {}

(***************************************************************************)
(* Claims on SettingsManagerBase.store                                     *)
(***************************************************************************)
\* C39: store has resolved, and syncDown has shown 'Sync Down completed
\* successfully', only when the content of every given file that has content
\* is written; when a write has failed store does not resolve
C39_StoreAwaitsWrites ==
    down.resolved \/ down.shown = "success" =>
        \A f \in StoreFileNames : down.data[f] = "content" => down.stage[f] = "written"

\* what holds of store: it resolves whatever it was given, and a file
\* without content is never written
StoreSkipsNullContent ==
    \A f \in StoreFileNames : down.data[f] # "content" => down.stage[f] = "none"

(***************************************************************************)
(* Claims on the settings managers                                         *)
(***************************************************************************)
\* C40: every file name that extract() of a settings manager returned is
\* accepted by canHandle() of the same manager
C40_ExtractedIsHandled ==
    call.fn = "extract" /\ call.returned => call.produced \subseteq call.accepted

\* what holds of C40: every manager but the profiles manager accepts each
\* file name it extracts
OthersHandleTheirFiles ==
    call.fn = "extract" /\ call.returned /\ call.manager # "profiles" =>
        call.produced \subseteq call.accepted

====
